---- MODULE Spec2Model ----
(***************************************************************************)
(* A model of autolive: song-span detection (silence_detect.py), track     *)
(* export (track_split.py), silence-threshold estimation, conversion to    *)
(* FLAC (convert.py), the SoundCloud upload (sc_uploader.py) and the       *)
(* SoundCloud authorization (sc_oauth.py).                                 *)
(*                                                                         *)
(* Times are milliseconds.  Loudness values are tenths of a dB, so that    *)
(* the code's 3.5 dB headroom and -40.0 dB fallback are the integers 35    *)
(* and -400.                                                               *)
(***************************************************************************)
EXTENDS Integers, Sequences, FiniteSets, TLC

(***************************************************************************)
(* Bounds of the model.                                                    *)
(***************************************************************************)
\* Timestamps of the probe are multiples of Grid milliseconds.
Grid == 15000
\* The recording lasts MaxTicks * Grid milliseconds.
MaxTicks == 9
\* The silence probe returns at most MaxSpans intervals.
MaxSpans == 3
\* split_tracks is given at most MaxTracks spans.
MaxTracks == 3
\* The recording analysed by estimate_silence_threshold has at most MaxSegs
\* segments of analysis_seg_ms.
MaxSegs == 4

Max(a, b) == IF a >= b THEN a ELSE b
Min(a, b) == IF a <= b THEN a ELSE b

Ticks == {t * Grid : t \in 0..MaxTicks}

(***************************************************************************)
(* silence_detect.py: detect_song_spans and its two merge passes.          *)
(***************************************************************************)
VARIABLES
    called,                 \* which function of silence_detect.py was called
    d_pc,                   \* position in that function and its callees
    probe,                  \* what detect_nonsilent returned
    total_duration_ms,      \* len(audio)
    keep_silence_ms,
    merge_adjacent_gap_ms,
    target_song_min_ms,
    target_song_max_ms,
    nonsilent_ranges,       \* the probe result after padding
    merged,                 \* _merge_adjacent_ranges: the list being built
    adj_i,                  \* _merge_adjacent_ranges: index of the next range
    merged_ranges,          \* what _merge_adjacent_ranges returned
    current,                \* _merge_to_target_lengths: <<current_start, current_end>>
    result,                 \* _merge_to_target_lengths: the list being built
    tgt_i,                  \* _merge_to_target_lengths: index of the next range
    parts,                  \* history: how many input ranges make up current
    result_parts,           \* history: the same for every member of result
    target_spans,           \* what _merge_to_target_lengths returned
    song_spans              \* what detect_song_spans returns

detectVars == <<called, d_pc, probe, total_duration_ms, keep_silence_ms,
                merge_adjacent_gap_ms, target_song_min_ms, target_song_max_ms,
                nonsilent_ranges, merged, adj_i, merged_ranges, current, result,
                tgt_i, parts, result_parts, target_spans, song_spans>>

(***************************************************************************)
(* track_split.py: split_tracks, _export_segment_to_flac, _add_flac_tags.  *)
(***************************************************************************)
VARIABLES
    s_pc,                   \* position in split_tracks
    n_spans,                \* len(song_spans) of the call
    start_index,
    ffmpeg_on_path,         \* whether the ffmpeg executable can be started
    band,                   \* Optional[str] parameters of split_tracks, handed
    venue,                  \*   on to _add_flac_tags
    show_date_iso,
    pos,                    \* 0-based position of the span being processed
    track_i,                \* the loop variable i of enumerate(song_spans, start_index)
    track_num,              \* f"{i:02d}", a string of digits
    temp_files,             \* the .tmp.wav files on disk, by track_num
    flac_files,             \* the .flac files on disk, by track_num
    tags,                   \* the tags saved in each tagged .flac file
    raised,                 \* the exception in flight inside the try block
    output_files,           \* the list split_tracks returns
    errors_logged,          \* logger.error calls of the except clause: the i's
    warnings_logged,        \* logger.warning calls of _add_flac_tags: the track_num's
    outcomes                \* history: what happened to each span, by position

splitVars == <<s_pc, n_spans, start_index, ffmpeg_on_path, band, venue,
               show_date_iso, pos, track_i, track_num,
               temp_files, flac_files, tags, raised, output_files, errors_logged,
               warnings_logged, outcomes>>

(***************************************************************************)
(* silence_detect.py: estimate_silence_threshold.                          *)
(***************************************************************************)
VARIABLES
    e_pc,                   \* position in estimate_silence_threshold
    audio,                  \* the recording: the dBFS of each analysis_seg_ms of it
    analysis_sample_segs,   \* analysis_sample_sec * 1000, in segments
    bottom_percentile,      \* in hundredths
    floor_headroom_db,
    sample,                 \* audio[:sample_duration_ms]
    seg_i,                  \* index of the next segment of the sample
    segment_dbs,
    threshold_db            \* the value returned

estimateVars == <<e_pc, audio, analysis_sample_segs, bottom_percentile,
                  floor_headroom_db, sample, seg_i, segment_dbs, threshold_db>>

(***************************************************************************)
(* convert.py: convert_to_flac.                                            *)
(***************************************************************************)
VARIABLES
    c_pc,                   \* position in convert_to_flac
    src,                    \* the source path, as str(src)
    dst,                    \* the destination path, as str(dst)
    which_ffmpeg,           \* what shutil.which("ffmpeg") returns
    dirs,                   \* the directories that exist
    subprocess_calls,       \* the argument list of every subprocess.run call
    c_raised                \* the exception convert_to_flac raised

convertVars == <<c_pc, src, dst, which_ffmpeg, dirs, subprocess_calls, c_raised>>

(***************************************************************************)
(* sc_uploader.py: upload_many and upload_track.                           *)
(***************************************************************************)
VARIABLES
    u_called,               \* which function of sc_uploader.py was called
    m_pc,                   \* position in upload_many
    files,                  \* upload_many: the list of paths given
    file_idx,               \* upload_many: 1-based position of the current file
    uploaded,               \* upload_many: the (path, track id) pairs
    failed,                 \* upload_many: the paths that failed
    pauses,                 \* upload_many: the time.sleep(1) calls between uploads
    u_pc,                   \* position in upload_track
    file_path,              \* upload_track: the path given
    attempt,                \* upload_track: the loop variable
    posts,                  \* upload_track: requests.post calls made
    last_status,            \* upload_track: what the last requests.post gave
    sleeps,                 \* upload_track: the time.sleep delays, in order
    handle_open,            \* upload_track: the file object is open
    track_id,               \* upload_track: the id returned
    u_raised                \* upload_track: the exception raised

uploadVars == <<u_called, m_pc, files, file_idx, uploaded, failed, pauses, u_pc,
                file_path, attempt, posts, last_status, sleeps, handle_open,
                track_id, u_raised>>

(***************************************************************************)
(* sc_oauth.py: ensure_access_token and authorize_and_exchange.            *)
(***************************************************************************)
VARIABLES
    o_called,               \* which function of sc_oauth.py was called
    t_pc,                   \* position in ensure_access_token
    stored,                 \* what _load_tokens returns: the token file's content
    now,                    \* time.time() at the expiry test of ensure_access_token
    net_posts,              \* requests.post calls made so far
    saved,                  \* what _save_tokens wrote last
    t_result,               \* the access token ensure_access_token returns
    t_raised,               \* the exception ensure_access_token raises
    a_pc,                   \* authorize_and_exchange: position of the main thread
    auth_code,              \* nonlocal, written by the handler, read by main
    received_state,         \* nonlocal, written by the handler, read by main
    h_pc,                   \* position of the server thread inside do_GET
    h_request,              \* the query parameters of the request being handled
    callbacks,              \* requests the server has taken so far
    last_callback,          \* history: the last request that carried code and state
    exchanged_code,         \* the code sent to the token endpoint
    a_raised                \* the exception authorize_and_exchange raises

oauthVars == <<o_called, t_pc, stored, now, net_posts, saved, t_result, t_raised,
               a_pc, auth_code, received_state, h_pc, h_request, callbacks,
               last_callback, exchanged_code, a_raised>>

vars == <<detectVars, splitVars, estimateVars, convertVars, uploadVars, oauthVars>>

\* What an action of one function leaves alone: the state of the others.
notDetect == <<splitVars, estimateVars, convertVars, uploadVars, oauthVars>>
notSplit == <<detectVars, estimateVars, convertVars, uploadVars, oauthVars>>
notEstimate == <<detectVars, splitVars, convertVars, uploadVars, oauthVars>>
notConvert == <<detectVars, splitVars, estimateVars, uploadVars, oauthVars>>
notUpload == <<detectVars, splitVars, estimateVars, convertVars, oauthVars>>
notOauth == <<detectVars, splitVars, estimateVars, convertVars, uploadVars>>

\* The short-fragment floor the code hard-codes.
min_fragment_ms == 45000

RECURSIVE ProbeFrom(_, _)
\* Every list of at most n intervals <<s, e>>, s < e, on the grid, at or after
\* lo, ascending and non-overlapping (an interval may start where the previous
\* one ends): what the silence probe may return.
ProbeFrom(lo, n) ==
    IF n = 0 THEN {<<>>}
    ELSE {<<>>} \cup
         UNION { { <<<<s, e>>>> \o rest : rest \in ProbeFrom(e, n - 1) } :
                 <<s, e>> \in {p \in Ticks \X Ticks : p[1] >= lo /\ p[1] < p[2]} }

ProbeResults == ProbeFrom(0, MaxSpans)

KeepSilenceChoices == {0, Grid}
GapChoices == {0, Grid}
TargetMinChoices == {2 * Grid, 4 * Grid}
TargetMaxChoices == {3 * Grid, 6 * Grid}

\* The padding loop without its max(0, ...) and min(len(audio), ...).
PadRangesUnclamped(ranges, keep, duration) ==
    [i \in DOMAIN ranges |-> <<ranges[i][1] - keep, ranges[i][2] + keep>>]

\* The padding loop of detect_song_spans.
PadRanges(ranges, keep, duration) ==
    IF keep > 0
    THEN [i \in DOMAIN ranges |->
            <<Max(0, ranges[i][1] - keep), Min(duration, ranges[i][2] + keep)>>]
    ELSE ranges

\* The test of _merge_adjacent_ranges with its operands exchanged.
GapSmallEnoughSwapped(current_start, last_end, gap_ms) ==
    last_end - current_start <= gap_ms

\* The test of _merge_adjacent_ranges with a strict comparison.
GapSmallEnoughStrict(current_start, last_end, gap_ms) ==
    current_start - last_end < gap_ms

\* _merge_adjacent_ranges: "if gap is small enough, merge".
GapSmallEnough(current_start, last_end, gap_ms) ==
    current_start - last_end <= gap_ms

\* One iteration of the loop of _merge_adjacent_ranges.
MergeAdjacentBody(m, cur, gap_ms) ==
    LET last == m[Len(m)] IN
    IF GapSmallEnough(cur[1], last[2], gap_ms)
    THEN [m EXCEPT ![Len(m)] = <<last[1], cur[2]>>]
    ELSE Append(m, cur)

\* The max test of _merge_to_target_lengths, never true.
ExceedsMaxNever(combined_length, max_length_ms) == FALSE

\* The max test of _merge_to_target_lengths taking a combined length equal to
\* the maximum as too long.
ExceedsMaxAtLimit(combined_length, max_length_ms) == combined_length >= max_length_ms

\* _merge_to_target_lengths: "if combining would exceed max length".
ExceedsMax(combined_length, max_length_ms) == combined_length > max_length_ms

\* The min test of _merge_to_target_lengths taking a length equal to the
\* minimum as still too short.
TooShortAtLimit(current_length, min_length_ms) == current_length <= min_length_ms

\* _merge_to_target_lengths: "if current segment is too short".
TooShort(current_length, min_length_ms) == current_length < min_length_ms

\* The floor test of detect_song_spans with the comparison lost: every span
\* is kept.
KeepsFragmentAlways(s, e) == TRUE

\* The floor filter's test in detect_song_spans.
KeepsFragment(s, e) == (e - s) >= min_fragment_ms

RECURSIVE Remerge(_, _)
\* A filter that folds every short span into the kept span before it.
Remerge(acc, rest) ==
    IF rest = <<>> THEN acc
    ELSE LET p == Head(rest) IN
         IF (p[2] - p[1]) >= min_fragment_ms THEN Remerge(Append(acc, p), Tail(rest))
         ELSE IF acc = <<>> THEN Remerge(acc, Tail(rest))
         ELSE Remerge([acc EXCEPT ![Len(acc)] = <<@[1], p[2]>>], Tail(rest))

\* The floor filter re-merging what it drops with the neighbour before it.
FloorFilterRemerging(spans) == Remerge(<<>>, spans)

\* The list comprehension that drops short fragments.
FloorFilter(spans) == SelectSeq(spans, LAMBDA p : KeepsFragment(p[1], p[2]))

InitDetect ==
    /\ called = "detect_song_spans"
    /\ d_pc = "probe"
    /\ probe \in ProbeResults
    /\ total_duration_ms = MaxTicks * Grid
    /\ keep_silence_ms \in KeepSilenceChoices
    /\ merge_adjacent_gap_ms \in GapChoices
    /\ target_song_min_ms \in TargetMinChoices
    /\ target_song_max_ms \in TargetMaxChoices
    /\ nonsilent_ranges = <<>>
    /\ merged = <<>>
    /\ adj_i = 0
    /\ merged_ranges = <<>>
    /\ current = <<0, 0>>
    /\ result = <<>>
    /\ tgt_i = 0
    /\ parts = 0
    /\ result_parts = <<>>
    /\ target_spans = <<>>
    /\ song_spans = <<>>

\* detect_song_spans is not running.
IdleDetect ==
    /\ called = "none"
    /\ d_pc = "idle"
    /\ probe = <<>>
    /\ total_duration_ms = 0
    /\ keep_silence_ms = 0
    /\ merge_adjacent_gap_ms = 0
    /\ target_song_min_ms = 0
    /\ target_song_max_ms = 0
    /\ nonsilent_ranges = <<>>
    /\ merged = <<>>
    /\ adj_i = 0
    /\ merged_ranges = <<>>
    /\ current = <<0, 0>>
    /\ result = <<>>
    /\ tgt_i = 0
    /\ parts = 0
    /\ result_parts = <<>>
    /\ target_spans = <<>>
    /\ song_spans = <<>>

\* The lists the spec gives as examples of each pass, with their parameters.
ExampleAdjacentInput == <<<<0, 50000>>, <<50500, 100000>>>>
ExampleTargetInputs ==
    {<<<<0, 90000>>, <<90000, 200000>>>>, <<<<0, 100000>>, <<100000, 700000>>>>}

\* A direct call of _merge_adjacent_ranges(ranges, gap_ms): ranges is any list
\* ascending in start and in end, the empty one included.
InitMergeAdjacentCall ==
    /\ called = "_merge_adjacent_ranges"
    /\ d_pc = "adjacent_enter"
    /\ \/ /\ nonsilent_ranges \in ProbeResults
          /\ merge_adjacent_gap_ms \in GapChoices
       \/ /\ nonsilent_ranges = ExampleAdjacentInput
          /\ merge_adjacent_gap_ms = 1000
    /\ probe = <<>>
    /\ total_duration_ms = 0
    /\ keep_silence_ms = 0
    /\ target_song_min_ms = 0
    /\ target_song_max_ms = 0
    /\ merged = <<>>
    /\ adj_i = 0
    /\ merged_ranges = <<>>
    /\ current = <<0, 0>>
    /\ result = <<>>
    /\ tgt_i = 0
    /\ parts = 0
    /\ result_parts = <<>>
    /\ target_spans = <<>>
    /\ song_spans = <<>>

\* A direct call of _merge_to_target_lengths(ranges, min_length_ms,
\* max_length_ms): ranges is any ascending list of disjoint ranges, the empty
\* one included.
InitMergeTargetCall ==
    /\ called = "_merge_to_target_lengths"
    /\ d_pc = "target_enter"
    /\ \/ /\ merged_ranges \in ProbeResults
          /\ target_song_min_ms \in TargetMinChoices
          /\ target_song_max_ms \in TargetMaxChoices
       \/ /\ merged_ranges \in ExampleTargetInputs
          /\ target_song_min_ms = 120000
          /\ target_song_max_ms = 600000
    /\ probe = <<>>
    /\ total_duration_ms = 0
    /\ keep_silence_ms = 0
    /\ merge_adjacent_gap_ms = 0
    /\ nonsilent_ranges = <<>>
    /\ merged = <<>>
    /\ adj_i = 0
    /\ current = <<0, 0>>
    /\ result = <<>>
    /\ tgt_i = 0
    /\ parts = 0
    /\ result_parts = <<>>
    /\ target_spans = <<>>
    /\ song_spans = <<>>

detectParams == <<called, probe, total_duration_ms, keep_silence_ms, merge_adjacent_gap_ms,
                  target_song_min_ms, target_song_max_ms>>

\* "if not ranges" / "if not nonsilent_ranges" without the test: a list is
\* never taken to be empty.
IsEmptyNever(ranges) == FALSE

\* "not ranges": a Python list is falsy exactly when it has no element.
IsEmpty(ranges) == Len(ranges) = 0

\* Where control goes when _merge_adjacent_ranges returns: back into
\* detect_song_spans, which calls _merge_to_target_lengths next, or to the
\* caller of a direct call.
AfterAdjacent == IF called = "detect_song_spans" THEN "target_enter" ELSE "done"

\* The same for _merge_to_target_lengths: on to the floor filter.
AfterTarget == IF called = "detect_song_spans" THEN "filter" ELSE "done"

\* detect_nonsilent has returned; pad, and return [] on an empty list, else
\* call _merge_adjacent_ranges.
DetectPad ==
    /\ UNCHANGED notDetect
    /\ d_pc = "probe"
    /\ LET padded == PadRanges(probe, keep_silence_ms, total_duration_ms) IN
       /\ nonsilent_ranges' = padded
       /\ d_pc' = IF IsEmpty(padded) THEN "done" ELSE "adjacent_enter"
    /\ UNCHANGED <<detectParams, merged, adj_i, merged_ranges, current, result,
                   tgt_i, parts, result_parts, target_spans, song_spans>>

\* _merge_adjacent_ranges(ranges, gap_ms) is entered: "if not ranges: return []",
\* else "merged = [ranges[0]]", where ranges[0] of a list without elements
\* raises IndexError.
MergeAdjacentEnter ==
    /\ UNCHANGED notDetect
    /\ d_pc = "adjacent_enter"
    /\ IF IsEmpty(nonsilent_ranges)
       THEN /\ merged_ranges' = <<>>
            /\ d_pc' = AfterAdjacent
            /\ UNCHANGED <<merged, adj_i>>
       ELSE IF Len(nonsilent_ranges) = 0
       THEN /\ d_pc' = "raised"
            /\ UNCHANGED <<merged, adj_i, merged_ranges>>
       ELSE /\ merged' = <<nonsilent_ranges[1]>>
            /\ adj_i' = 2
            /\ d_pc' = "adjacent"
            /\ UNCHANGED merged_ranges
    /\ UNCHANGED <<detectParams, nonsilent_ranges, current, result, tgt_i, parts,
                   result_parts, target_spans, song_spans>>

\* One iteration of "for current_start, current_end in ranges[1:]".
MergeAdjacentStep ==
    /\ UNCHANGED notDetect
    /\ d_pc = "adjacent"
    /\ adj_i <= Len(nonsilent_ranges)
    /\ merged' = MergeAdjacentBody(merged, nonsilent_ranges[adj_i],
                                   merge_adjacent_gap_ms)
    /\ adj_i' = adj_i + 1
    /\ UNCHANGED <<d_pc, detectParams, nonsilent_ranges, merged_ranges, current,
                   result, tgt_i, parts, result_parts, target_spans, song_spans>>

\* "return merged".
MergeAdjacentReturn ==
    /\ UNCHANGED notDetect
    /\ d_pc = "adjacent"
    /\ adj_i > Len(nonsilent_ranges)
    /\ merged_ranges' = merged
    /\ d_pc' = AfterAdjacent
    /\ UNCHANGED <<detectParams, nonsilent_ranges, merged, adj_i, current, result,
                   tgt_i, parts, result_parts, target_spans, song_spans>>

\* _merge_to_target_lengths(ranges, min_length_ms, max_length_ms) is entered:
\* "if not ranges: return []", else the accumulator starts at ranges[0].
MergeTargetEnter ==
    /\ UNCHANGED notDetect
    /\ d_pc = "target_enter"
    /\ IF IsEmpty(merged_ranges)
       THEN /\ target_spans' = <<>>
            /\ d_pc' = AfterTarget
            /\ UNCHANGED <<current, result, tgt_i, parts, result_parts>>
       ELSE IF Len(merged_ranges) = 0
       THEN /\ d_pc' = "raised"   \* IndexError at ranges[0]
            /\ UNCHANGED <<current, result, tgt_i, parts, result_parts,
                           target_spans>>
       ELSE /\ result' = <<>>
            /\ result_parts' = <<>>
            /\ current' = merged_ranges[1]
            /\ parts' = 1
            /\ tgt_i' = 2
            /\ d_pc' = "target"
            /\ UNCHANGED target_spans
    /\ UNCHANGED <<detectParams, nonsilent_ranges, merged, adj_i, merged_ranges,
                   song_spans>>

\* "result.append((current_start, current_end)); current = next".
CloseAndRestart(next) ==
    /\ result' = Append(result, current)
    /\ result_parts' = Append(result_parts, parts)
    /\ current' = next
    /\ parts' = 1

\* The accumulator is short and combining would exceed the maximum.
TargetCloseShort ==
    /\ UNCHANGED notDetect
    /\ d_pc = "target"
    /\ tgt_i <= Len(merged_ranges)
    /\ LET next == merged_ranges[tgt_i] IN
       /\ TooShort(current[2] - current[1], target_song_min_ms)
       /\ ExceedsMax(next[2] - current[1], target_song_max_ms)
       /\ CloseAndRestart(next)
    /\ tgt_i' = tgt_i + 1
    /\ UNCHANGED <<d_pc, detectParams, nonsilent_ranges, merged, adj_i,
                   merged_ranges, target_spans, song_spans>>

\* The accumulator is short and the next range fits: merge it in.
TargetMerge ==
    /\ UNCHANGED notDetect
    /\ d_pc = "target"
    /\ tgt_i <= Len(merged_ranges)
    /\ LET next == merged_ranges[tgt_i] IN
       /\ TooShort(current[2] - current[1], target_song_min_ms)
       /\ ~ExceedsMax(next[2] - current[1], target_song_max_ms)
       /\ current' = <<current[1], next[2]>>
       /\ parts' = parts + 1
    /\ tgt_i' = tgt_i + 1
    /\ UNCHANGED <<d_pc, detectParams, nonsilent_ranges, merged, adj_i,
                   merged_ranges, result, result_parts, target_spans, song_spans>>

\* The accumulator is long enough: close it.
TargetCloseLong ==
    /\ UNCHANGED notDetect
    /\ d_pc = "target"
    /\ tgt_i <= Len(merged_ranges)
    /\ ~TooShort(current[2] - current[1], target_song_min_ms)
    /\ CloseAndRestart(merged_ranges[tgt_i])
    /\ tgt_i' = tgt_i + 1
    /\ UNCHANGED <<d_pc, detectParams, nonsilent_ranges, merged, adj_i,
                   merged_ranges, target_spans, song_spans>>

\* The pass returning without its final append.
AddLastSegmentNever(res, cur) == res

\* "Add the last segment": result.append((current_start, current_end)), with
\* no test of the accumulator's length.
AddLastSegment(res, cur) == Append(res, cur)

\* "Add the last segment" and return.
MergeTargetReturn ==
    /\ UNCHANGED notDetect
    /\ d_pc = "target"
    /\ tgt_i > Len(merged_ranges)
    /\ result' = AddLastSegment(result, current)
    /\ result_parts' = Append(result_parts, parts)
    /\ target_spans' = result'
    /\ d_pc' = AfterTarget
    /\ UNCHANGED <<detectParams, nonsilent_ranges, merged, adj_i, merged_ranges,
                   current, tgt_i, parts, song_spans>>

\* Drop the short fragments and return.
DropShortFragments ==
    /\ UNCHANGED notDetect
    /\ d_pc = "filter"
    /\ song_spans' = FloorFilter(target_spans)
    /\ d_pc' = "done"
    /\ UNCHANGED <<detectParams, nonsilent_ranges, merged, adj_i, merged_ranges,
                   current, result, tgt_i, parts, result_parts, target_spans>>

NextDetect ==
    \/ DetectPad
    \/ MergeAdjacentEnter
    \/ MergeAdjacentStep
    \/ MergeAdjacentReturn
    \/ MergeTargetEnter
    \/ TargetCloseShort
    \/ TargetMerge
    \/ TargetCloseLong
    \/ MergeTargetReturn
    \/ DropShortFragments

(***************************************************************************)
(* track_split.py                                                          *)
(***************************************************************************)
StartIndexChoices == {0, 1, 9, 99}

RECURSIVE Str(_)
\* str(n) for n >= 0: its decimal digits.
Str(n) == IF n < 10 THEN <<n>> ELSE Str(n \div 10) \o <<n % 10>>

\* f"{n:02d}" for n >= 0: the decimal digits, zero-padded to two.
Format02d(n) == IF n < 10 THEN <<0, n>> ELSE Str(n)

RECURSIVE DigitsValue(_)
\* The number a string of digits reads as.
DigitsValue(d) ==
    IF d = <<>> THEN 0
    ELSE 10 * DigitsValue(SubSeq(d, 1, Len(d) - 1)) + d[Len(d)]

\* The loop variable numbered by the successes so far.
TrackNumberOfSuccesses(start, position, done) == start + done

\* enumerate(song_spans, start_index): the number of the span at a 0-based
\* position, whatever happened to the spans before it.
TrackNumber(start, position, done) == start + position

\* The except clause leaving the loop.
NextAfterFailureBreak(position, n) == n

\* "continue" in the except clause of split_tracks: on to the next span.
NextAfterFailure(position, n) == position + 1

\* _add_flac_tags without its try/except.
TagFailureEscapes == FALSE

\* _add_flac_tags catches every Exception of its body and logs a warning.
TagFailureSwallowed == TRUE

\* The TRACKNUMBER tag formatted like the title and the file name.
TrackNumberTagPadded(n) == Format02d(n)

\* 'flac_file["TRACKNUMBER"] = str(track_num)', track_num being the int i.
TrackNumberTag(n) == Str(n)

\* The tags _add_flac_tags sets that depend on the track number alone
\* (title_prefix is left at its default, None).
TrackTags(n) ==
    [TRACKNUMBER |-> TrackNumberTag(n), TITLE |-> <<"Track", Format02d(n)>>]

\* Python's None, and the values an Optional[str] parameter is given here.
None == "<None>"
BandChoices == {None, "", "Foo"}
VenueChoices == {None, "", "Bar"}
ShowDateChoices == {None, "", "2024-05-01"}

\* "if band:", "if venue:", "if show_date_iso:": the truth value of an
\* Optional[str]; None and the empty string are falsy.
Truthy(x) == x # None /\ x # ""

\* A tag bag without tags.
NoTags == [k \in {} |-> k]

\* The album parts with the date put first.
AlbumPartsDateFirst(v, d) ==
    (IF Truthy(d) THEN <<d>> ELSE <<>>) \o (IF Truthy(v) THEN <<v>> ELSE <<>>)

\* album_parts: the venue, then the date, each if truthy.
AlbumParts(v, d) ==
    (IF Truthy(v) THEN <<v>> ELSE <<>>) \o (IF Truthy(d) THEN <<d>> ELSE <<>>)

RECURSIVE JoinDash(_)
\* " - ".join(parts): the parts with the separator between neighbours, as the
\* sequence of the pieces of the resulting string.
JoinDash(ps) ==
    IF Len(ps) <= 1 THEN ps
    ELSE <<ps[1], " - ">> \o JoinDash(Tail(ps))

\* "if band: ARTIST = band; ALBUMARTIST = band".
BandTags(b) == IF Truthy(b) THEN [ARTIST |-> b, ALBUMARTIST |-> b] ELSE NoTags

\* "if album_parts: ALBUM = ' - '.join(album_parts)".
AlbumTags(v, d) ==
    IF AlbumParts(v, d) # <<>> THEN [ALBUM |-> JoinDash(AlbumParts(v, d))]
    ELSE NoTags

\* "if show_date_iso: DATE = show_date_iso".
DateTags(d) == IF Truthy(d) THEN [DATE |-> d] ELSE NoTags

\* Every tag _add_flac_tags sets on the freshly encoded file before it saves
\* (LENGTH, which depends on the audio alone, left out).
TagsWritten(n, b, v, d) ==
    TrackTags(n) @@ BandTags(b) @@ AlbumTags(v, d) @@ DateTags(d)
        @@ [GENRE |-> "Live Recording"]

InitSplit ==
    /\ s_pc = "load"
    /\ n_spans \in 0..MaxTracks
    /\ start_index \in StartIndexChoices
    /\ ffmpeg_on_path \in BOOLEAN
    /\ band \in BandChoices
    /\ venue \in VenueChoices
    /\ show_date_iso \in ShowDateChoices
    /\ pos = 0
    /\ track_i = start_index
    /\ track_num = <<>>
    /\ temp_files = {}
    /\ flac_files = {}
    /\ tags = <<>>
    /\ raised = "none"
    /\ output_files = <<>>
    /\ errors_logged = <<>>
    /\ warnings_logged = <<>>
    /\ outcomes = <<>>

\* split_tracks is not running.
IdleSplit ==
    /\ s_pc = "idle"
    /\ n_spans = 0
    /\ start_index = 0
    /\ ffmpeg_on_path = TRUE
    /\ band = None
    /\ venue = None
    /\ show_date_iso = None
    /\ pos = 0
    /\ track_i = 0
    /\ track_num = <<>>
    /\ temp_files = {}
    /\ flac_files = {}
    /\ tags = <<>>
    /\ raised = "none"
    /\ output_files = <<>>
    /\ errors_logged = <<>>
    /\ warnings_logged = <<>>
    /\ outcomes = <<>>

splitParams == <<n_spans, start_index, ffmpeg_on_path, band, venue, show_date_iso>>

\* AudioSegment.from_file: the audio loads, or the exception is re-raised.
LoadAudio ==
    /\ UNCHANGED notSplit
    /\ s_pc = "load"
    /\ \E ok \in BOOLEAN : s_pc' = IF ok THEN "loop" ELSE "raised"
    /\ UNCHANGED <<splitParams, pos, track_i, track_num, temp_files, flac_files, tags,
                   raised, output_files, errors_logged, warnings_logged, outcomes>>

\* The head of the loop body: the next span, its number and its file name.
BeginTrack ==
    /\ UNCHANGED notSplit
    /\ s_pc = "loop"
    /\ pos < n_spans
    /\ track_i' = TrackNumber(start_index, pos, Len(output_files))
    /\ track_num' = Format02d(track_i')
    /\ s_pc' = "wav"
    /\ UNCHANGED <<splitParams, pos, temp_files, flac_files, tags, raised,
                   output_files, errors_logged, warnings_logged, outcomes>>

\* _export_segment_to_flac: segment.export writes the temporary WAV, or raises
\* (and may leave a partial file behind).
ExportWav ==
    /\ UNCHANGED notSplit
    /\ s_pc = "wav"
    /\ \E ok \in BOOLEAN, left \in BOOLEAN :
          IF ok
          THEN /\ temp_files' = temp_files \cup {track_num}
               /\ s_pc' = "ffmpeg"
               /\ UNCHANGED raised
          ELSE /\ temp_files' = IF left THEN temp_files \cup {track_num}
                                ELSE temp_files
               /\ raised' = "wav_export"
               /\ s_pc' = "finally"
    /\ UNCHANGED <<splitParams, pos, track_i, track_num, flac_files, tags,
                   output_files, errors_logged, warnings_logged, outcomes>>

\* _export_segment_to_flac: subprocess.run(cmd, check=True).
RunFfmpeg ==
    /\ UNCHANGED notSplit
    /\ s_pc = "ffmpeg"
    /\ IF ~ffmpeg_on_path
       THEN /\ raised' = "FileNotFoundError"
            /\ UNCHANGED flac_files
       ELSE \E ok \in BOOLEAN :
               IF ok
               THEN /\ flac_files' = flac_files \cup {track_num}
                    /\ UNCHANGED raised
               ELSE /\ raised' = "CalledProcessError"
                    /\ UNCHANGED flac_files
    /\ s_pc' = "finally"
    /\ UNCHANGED <<splitParams, pos, track_i, track_num, temp_files, tags,
                   output_files, errors_logged, warnings_logged, outcomes>>

\* The cleanup written after the try block instead of in a finally clause: it
\* runs only when no exception is in flight.
CleanupOnSuccessOnly(exc) == exc = "none"

\* "finally:" runs its body whether the try block ended normally or raised.
CleanupRuns(exc) == TRUE

\* _export_segment_to_flac: the finally clause removes the temporary file if
\* it exists.
CleanupTemp ==
    /\ UNCHANGED notSplit
    /\ s_pc = "finally"
    /\ temp_files' = IF CleanupRuns(raised) THEN temp_files \ {track_num}
                     ELSE temp_files
    /\ s_pc' = IF raised = "none" THEN "tags" ELSE "except"
    /\ UNCHANGED <<splitParams, pos, track_i, track_num, flac_files, tags, raised,
                   output_files, errors_logged, warnings_logged, outcomes>>

\* _add_flac_tags: the tags are saved, or an exception of its body is caught
\* and logged as a warning.
AddTags ==
    /\ UNCHANGED notSplit
    /\ s_pc = "tags"
    /\ \E ok \in BOOLEAN :
          IF ok
          THEN /\ tags' = (track_num :> TagsWritten(track_i, band, venue,
                                                    show_date_iso)) @@ tags
               /\ outcomes' = Append(outcomes, "ok")
               /\ s_pc' = "append"
               /\ UNCHANGED <<raised, warnings_logged>>
          ELSE IF TagFailureSwallowed
          THEN /\ warnings_logged' = Append(warnings_logged, track_num)
               /\ outcomes' = Append(outcomes, "tag_failed")
               /\ s_pc' = "append"
               /\ UNCHANGED <<raised, tags>>
          ELSE /\ raised' = "tag_failed"
               /\ s_pc' = "except"
               /\ UNCHANGED <<tags, warnings_logged, outcomes>>
    /\ UNCHANGED <<splitParams, pos, track_i, track_num, temp_files, flac_files,
                   output_files, errors_logged>>

\* "output_files.append(output_path)" and on to the next span.
AppendOutput ==
    /\ UNCHANGED notSplit
    /\ s_pc = "append"
    /\ output_files' = Append(output_files, track_num)
    /\ pos' = pos + 1
    /\ s_pc' = "loop"
    /\ UNCHANGED <<splitParams, track_i, track_num, temp_files, flac_files, tags,
                   raised, errors_logged, warnings_logged, outcomes>>

\* "except Exception as e: logger.error(...); continue".
ExceptContinue ==
    /\ UNCHANGED notSplit
    /\ s_pc = "except"
    /\ errors_logged' = Append(errors_logged, track_i)
    /\ outcomes' = Append(outcomes, raised)
    /\ raised' = "none"
    /\ pos' = NextAfterFailure(pos, n_spans)
    /\ s_pc' = "loop"
    /\ UNCHANGED <<splitParams, track_i, track_num, temp_files, flac_files, tags,
                   output_files, warnings_logged>>

\* The loop is exhausted: "return output_files".
ReturnTracks ==
    /\ UNCHANGED notSplit
    /\ s_pc = "loop"
    /\ pos >= n_spans
    /\ s_pc' = "returned"
    /\ UNCHANGED <<splitParams, pos, track_i, track_num, temp_files, flac_files, tags,
                   raised, output_files, errors_logged, warnings_logged, outcomes>>

NextSplit ==
    \/ LoadAudio
    \/ BeginTrack
    \/ ExportWav
    \/ RunFfmpeg
    \/ CleanupTemp
    \/ AddTags
    \/ AppendOutput
    \/ ExceptContinue
    \/ ReturnTracks

(***************************************************************************)
(* silence_detect.py: estimate_silence_threshold                           *)
(***************************************************************************)
\* float('-inf'): the dBFS of a segment of digital silence, below every other.
NegInf == -99999
\* The threshold returned when no segment is informative: -40.0 dB.
FallbackDb == -400

LoudnessChoices == {NegInf, -600, -20, 0}
HeadroomChoices == {0, 35}
PercentileChoices == {0, 25, 99, 100}
SampleSegsChoices == {2, MaxSegs}

RECURSIVE InsertAsc(_, _)
\* x put into the ascending list sorted.
InsertAsc(x, sorted) ==
    IF sorted = <<>> THEN <<x>>
    ELSE IF x <= Head(sorted) THEN <<x>> \o sorted
    ELSE <<Head(sorted)>> \o InsertAsc(x, Tail(sorted))

RECURSIVE SortAsc(_)
\* segment_dbs.sort(): ascending.
SortAsc(dbs) ==
    IF dbs = <<>> THEN <<>> ELSE InsertAsc(Head(dbs), SortAsc(Tail(dbs)))

\* The fallback test lost: the lookup always runs.
NoValidSegmentsNever(dbs) == FALSE

\* "if not segment_dbs".
NoValidSegments(dbs) == dbs = <<>>

\* "if db != float('-inf')".
Informative(db) == db # NegInf

\* The index rounded to the nearest integer instead of truncated.
FloorIndexRounded(count, percentile) == (count * percentile + 50) \div 100

\* int(len(segment_dbs) * bottom_percentile), the percentile in hundredths.
FloorIndex(count, percentile) == (count * percentile) \div 100

InitEstimate ==
    /\ e_pc = "load"
    /\ audio \in UNION {[1..n -> LoudnessChoices] : n \in 0..MaxSegs}
    /\ analysis_sample_segs \in SampleSegsChoices
    /\ bottom_percentile \in PercentileChoices
    /\ floor_headroom_db \in HeadroomChoices
    /\ sample = <<>>
    /\ seg_i = 0
    /\ segment_dbs = <<>>
    /\ threshold_db = 0

\* estimate_silence_threshold is not running.
IdleEstimate ==
    /\ e_pc = "idle"
    /\ audio = <<>>
    /\ analysis_sample_segs = 0
    /\ bottom_percentile = 0
    /\ floor_headroom_db = 0
    /\ sample = <<>>
    /\ seg_i = 0
    /\ segment_dbs = <<>>
    /\ threshold_db = 0

estimateParams == <<audio, analysis_sample_segs, bottom_percentile,
                    floor_headroom_db>>

\* "sample = audio[:min(analysis_sample_sec * 1000, len(audio))]".
TakeSample ==
    /\ UNCHANGED notEstimate
    /\ e_pc = "load"
    /\ sample' = SubSeq(audio, 1, Min(analysis_sample_segs, Len(audio)))
    /\ seg_i' = 1
    /\ segment_dbs' = <<>>
    /\ e_pc' = "scan"
    /\ UNCHANGED <<estimateParams, threshold_db>>

\* One iteration of the loop over the segments of the sample.
ScanSegment ==
    /\ UNCHANGED notEstimate
    /\ e_pc = "scan"
    /\ seg_i <= Len(sample)
    /\ segment_dbs' = IF Informative(sample[seg_i])
                      THEN Append(segment_dbs, sample[seg_i])
                      ELSE segment_dbs
    /\ seg_i' = seg_i + 1
    /\ UNCHANGED <<e_pc, estimateParams, sample, threshold_db>>

\* No informative segment: "return -40.0".
ReturnFallback ==
    /\ UNCHANGED notEstimate
    /\ e_pc = "scan"
    /\ seg_i > Len(sample)
    /\ NoValidSegments(segment_dbs)
    /\ threshold_db' = FallbackDb
    /\ e_pc' = "returned"
    /\ UNCHANGED <<estimateParams, sample, seg_i, segment_dbs>>

\* Sort, look the noise floor up and add the headroom; a lookup outside the
\* list raises IndexError.
ComputeThreshold ==
    /\ UNCHANGED notEstimate
    /\ e_pc = "scan"
    /\ seg_i > Len(sample)
    /\ ~NoValidSegments(segment_dbs)
    /\ LET sorted == SortAsc(segment_dbs)
           floor_index == FloorIndex(Len(segment_dbs), bottom_percentile)
       IN  IF floor_index + 1 \in DOMAIN sorted
           THEN /\ segment_dbs' = sorted
                /\ threshold_db' = sorted[floor_index + 1] + floor_headroom_db
                /\ e_pc' = "returned"
           ELSE /\ e_pc' = "raised"
                /\ segment_dbs' = sorted
                /\ UNCHANGED threshold_db
    /\ UNCHANGED <<estimateParams, sample, seg_i>>

NextEstimate ==
    \/ TakeSample
    \/ ScanSegment
    \/ ReturnFallback
    \/ ComputeThreshold

(***************************************************************************)
(* convert.py                                                              *)
(***************************************************************************)
SrcChoices == {"in.wav", "rec/in.aiff", "flac"}
DstChoices == {"out.flac", "flac/out.flac", "a/b/out.flac"}
WhichChoices == {None, "/usr/bin/ffmpeg", "/usr/local/bin/ffmpeg"}

\* dst.parent together with its own parents, which mkdir(parents=True) creates.
ParentDirs(path) ==
    CASE path = "out.flac" -> {"."}
      [] path = "flac/out.flac" -> {".", "flac"}
      [] path = "a/b/out.flac" -> {".", "a", "a/b"}
      [] OTHER -> {"."}

\* The test for ffmpeg left out: the conversion always goes ahead.
FfmpegFoundAlways(w) == TRUE

\* 'shutil.which("ffmpeg") is None', negated.
FfmpegFound(w) == w # None

\* The argument list convert_to_flac builds.
ConvertCmd(s, d) == <<"ffmpeg", "-y", "-i", s, "-c:a", "flac", d>>

InitConvert ==
    /\ c_pc = "which"
    /\ src \in SrcChoices
    /\ dst \in DstChoices
    /\ which_ffmpeg \in WhichChoices
    /\ dirs \in {{"."}, {".", "flac"}, {".", "a", "a/b"}}
    /\ subprocess_calls = <<>>
    /\ c_raised = "none"

\* convert_to_flac is not running.
IdleConvert ==
    /\ c_pc = "idle"
    /\ src = ""
    /\ dst = ""
    /\ which_ffmpeg = None
    /\ dirs = {}
    /\ subprocess_calls = <<>>
    /\ c_raised = "none"

convertParams == <<src, dst, which_ffmpeg>>

\* 'if shutil.which("ffmpeg") is None: raise RuntimeError(...)'.
CheckFfmpeg ==
    /\ UNCHANGED notConvert
    /\ c_pc = "which"
    /\ IF FfmpegFound(which_ffmpeg)
       THEN /\ c_pc' = "mkdir"
            /\ UNCHANGED c_raised
       ELSE /\ c_pc' = "raised"
            /\ c_raised' = "RuntimeError"
    /\ UNCHANGED <<convertParams, dirs, subprocess_calls>>

\* "dst.parent.mkdir(parents=True, exist_ok=True)": the directory and its
\* parents exist afterwards, whether or not they did before.
MakeParentDir ==
    /\ UNCHANGED notConvert
    /\ c_pc = "mkdir"
    /\ dirs' = dirs \cup ParentDirs(dst)
    /\ c_pc' = "run"
    /\ UNCHANGED <<convertParams, subprocess_calls, c_raised>>

\* "_run(cmd)": subprocess.run(cmd, check=True, ...) starts ffmpeg, which
\* exits with status 0 or not; without the executable the start itself fails.
RunConvert ==
    /\ UNCHANGED notConvert
    /\ c_pc = "run"
    /\ subprocess_calls' = Append(subprocess_calls, ConvertCmd(src, dst))
    /\ IF which_ffmpeg = None
       THEN /\ c_raised' = "FileNotFoundError"
            /\ c_pc' = "raised"
       ELSE \E ok \in BOOLEAN :
               IF ok
               THEN /\ c_pc' = "returned"
                    /\ UNCHANGED c_raised
               ELSE /\ c_raised' = "CalledProcessError"
                    /\ c_pc' = "raised"
    /\ UNCHANGED <<convertParams, dirs>>

NextConvert ==
    \/ CheckFfmpeg
    \/ MakeParentDir
    \/ RunConvert

(***************************************************************************)
(* sc_uploader.py                                                          *)
(***************************************************************************)
\* upload_many is given at most MaxFiles paths.
MaxFiles == 3

\* The upload limit, in MB.
MAX_FILE_SIZE == 500
MAX_RETRIES == 3
RETRY_DELAYS == <<1, 2, 4>>

\* requests.post raising a RequestException instead of giving a response.
NetworkError == 0

\* The paths of the model, the size in MB of those that exist, and the one
\* that does not exist.
PathChoices == {"a.flac", "b.flac", "limit.flac", "big.flac", "gone.flac"}
FileSize(path) ==
    CASE path = "limit.flac" -> 500
      [] path = "big.flac" -> 501
      [] OTHER -> 30
FileExists(path) == path # "gone.flac"

\* What one requests.post may give: a status code or a network error.
PostOutcomes == {201, 200, 401, 404, 429, 500, 502, 503, 504, NetworkError}
TrackIdChoices == {101, 102}

\* A retry decided on the class of the status: every 4xx and 5xx is retried.
ShouldRetryAnyError(status_code) == status_code >= 400

\* _should_retry.
ShouldRetry(status_code) == status_code \in {429, 500, 502, 503, 504}

\* _get_retry_delay, attempt counted from 0.
GetRetryDelay(att) ==
    IF att >= Len(RETRY_DELAYS) THEN RETRY_DELAYS[Len(RETRY_DELAYS)]
    ELSE RETRY_DELAYS[att + 1]

\* The size check of upload_track and upload_many.
TooLarge(path) == FileSize(path) > MAX_FILE_SIZE

\* The state of upload_track before it is called.
UploadTrackIdle ==
    /\ u_pc = "idle"
    /\ file_path = ""
    /\ attempt = 0
    /\ posts = 0
    /\ last_status = NetworkError
    /\ sleeps = <<>>
    /\ handle_open = FALSE
    /\ track_id = 0
    /\ u_raised = "none"

\* upload_many is not running.
UploadManyIdle ==
    /\ m_pc = "idle"
    /\ files = <<>>
    /\ file_idx = 0
    /\ uploaded = <<>>
    /\ failed = <<>>
    /\ pauses = 0

\* One call of upload_track(file_path, ...).
InitUploadTrack ==
    /\ u_called = "upload_track"
    /\ UploadManyIdle
    /\ u_pc = "enter"
    /\ file_path \in PathChoices
    /\ attempt = 0
    /\ posts = 0
    /\ last_status = NetworkError
    /\ sleeps = <<>>
    /\ handle_open = FALSE
    /\ track_id = 0
    /\ u_raised = "none"

\* One call of upload_many(files, ...).
InitUploadMany ==
    /\ u_called = "upload_many"
    /\ m_pc = "loop"
    /\ files \in UNION {[1..n -> PathChoices] : n \in 0..MaxFiles}
    /\ file_idx = 1
    /\ uploaded = <<>>
    /\ failed = <<>>
    /\ pauses = 0
    /\ UploadTrackIdle

\* Nothing of sc_uploader.py is running.
IdleUpload ==
    /\ u_called = "none"
    /\ UploadManyIdle
    /\ UploadTrackIdle

manyVars == <<m_pc, files, file_idx, uploaded, failed, pauses>>

\* upload_track: the two checks before the file is opened, then open().
UploadTrackEnter ==
    /\ UNCHANGED notUpload
    /\ u_pc = "enter"
    /\ IF ~FileExists(file_path) \/ TooLarge(file_path)
       THEN /\ u_raised' = "ValueError"
            /\ u_pc' = "raised"
            /\ UNCHANGED handle_open
       ELSE /\ handle_open' = TRUE
            /\ u_pc' = "post"
            /\ UNCHANGED u_raised
    /\ UNCHANGED <<u_called, manyVars, file_path, attempt, posts, last_status,
                   sleeps, track_id>>

\* One iteration of "for attempt in range(MAX_RETRIES + 1)": the POST and what
\* follows from its outcome. A 201 response carries the id of the new track.
PostAttempt ==
    /\ UNCHANGED notUpload
    /\ u_pc = "post"
    /\ attempt <= MAX_RETRIES
    /\ posts' = posts + 1
    /\ \E outcome \in PostOutcomes :
          /\ last_status' = outcome
          /\ IF outcome = 201
             THEN /\ \E id \in TrackIdChoices : track_id' = id
                  /\ u_pc' = "finally"
                  /\ UNCHANGED <<attempt, sleeps, u_raised>>
             ELSE IF outcome = NetworkError \/ ShouldRetry(outcome)
             THEN IF attempt < MAX_RETRIES
                  THEN /\ sleeps' = Append(sleeps, GetRetryDelay(attempt))
                       /\ attempt' = attempt + 1
                       /\ UNCHANGED <<u_pc, track_id, u_raised>>
                  ELSE /\ u_raised' = "RuntimeError"
                       /\ u_pc' = "finally"
                       /\ UNCHANGED <<attempt, sleeps, track_id>>
             ELSE /\ u_raised' = "RuntimeError"
                  /\ u_pc' = "finally"
                  /\ UNCHANGED <<attempt, sleeps, track_id>>
    /\ UNCHANGED <<u_called, manyVars, file_path, handle_open>>

\* "finally: files['track[asset_data]'][1].close()", then the return or the
\* exception goes on to the caller.
CloseHandle ==
    /\ UNCHANGED notUpload
    /\ u_pc = "finally"
    /\ handle_open' = FALSE
    /\ u_pc' = IF u_raised = "none" THEN "returned" ELSE "raised"
    /\ UNCHANGED <<u_called, manyVars, file_path, attempt, posts, last_status,
                   sleeps, track_id, u_raised>>

NextUploadTrack ==
    \/ UploadTrackEnter
    \/ PostAttempt
    \/ CloseHandle

\* The except clause of upload_many left out: the exception of one file ends
\* the batch.
PerFileExceptionEscapes == FALSE

\* "except Exception as e: ...; failed.append(file_path)".
PerFileExceptionCaught == TRUE

\* upload_many, the head of the loop body: stat() of a missing file raises
\* and the except clause records the failure; a file over the limit is
\* skipped as failed; otherwise upload_track is called.
ManyBeginFile ==
    /\ UNCHANGED notUpload
    /\ m_pc = "loop"
    /\ file_idx <= Len(files)
    /\ LET f == files[file_idx] IN
       IF ~FileExists(f)
       THEN IF PerFileExceptionCaught
            THEN /\ failed' = Append(failed, f)
                 /\ file_idx' = file_idx + 1
                 /\ UNCHANGED <<m_pc, u_pc, file_path>>
            ELSE /\ m_pc' = "raised"
                 /\ UNCHANGED <<failed, file_idx, u_pc, file_path>>
       ELSE IF TooLarge(f)
       THEN /\ failed' = Append(failed, f)
            /\ file_idx' = file_idx + 1
            /\ UNCHANGED <<m_pc, u_pc, file_path>>
       ELSE /\ m_pc' = "call"
            /\ u_pc' = "enter"
            /\ file_path' = f
            /\ UNCHANGED <<failed, file_idx>>
    /\ UNCHANGED <<u_called, files, uploaded, pauses, attempt, posts, last_status,
                   sleeps, handle_open, track_id, u_raised>>

\* upload_many after upload_track: the pair is appended and the loop pauses
\* before the next file, or the except clause records the failure.
ManyEndFile ==
    /\ UNCHANGED notUpload
    /\ m_pc = "call"
    /\ u_pc \in {"returned", "raised"}
    /\ IF u_pc = "returned"
       THEN /\ uploaded' = Append(uploaded, <<files[file_idx], track_id>>)
            /\ pauses' = IF file_idx < Len(files) THEN pauses + 1 ELSE pauses
            /\ file_idx' = file_idx + 1
            /\ m_pc' = "loop"
            /\ UNCHANGED failed
       ELSE IF PerFileExceptionCaught
       THEN /\ failed' = Append(failed, files[file_idx])
            /\ file_idx' = file_idx + 1
            /\ m_pc' = "loop"
            /\ UNCHANGED <<uploaded, pauses>>
       ELSE /\ m_pc' = "raised"
            /\ UNCHANGED <<uploaded, pauses, failed, file_idx>>
    /\ u_pc' = "idle"
    /\ file_path' = ""
    /\ attempt' = 0
    /\ posts' = 0
    /\ last_status' = NetworkError
    /\ sleeps' = <<>>
    /\ track_id' = 0
    /\ u_raised' = "none"
    /\ UNCHANGED <<u_called, files, handle_open>>

\* The loop is exhausted: "return {'uploaded': uploaded, 'failed': failed}".
ManyReturn ==
    /\ UNCHANGED notUpload
    /\ m_pc = "loop"
    /\ file_idx > Len(files)
    /\ m_pc' = "returned"
    /\ UNCHANGED <<u_called, files, file_idx, uploaded, failed, pauses, u_pc,
                   file_path, attempt, posts, last_status, sleeps, handle_open,
                   track_id, u_raised>>

NextUploadMany ==
    \/ ManyBeginFile
    \/ UploadTrackEnter
    \/ PostAttempt
    \/ CloseHandle
    \/ ManyEndFile
    \/ ManyReturn

(***************************************************************************)
(* sc_oauth.py                                                             *)
(***************************************************************************)
\* The server takes at most MaxCallbacks requests during one authorization.
MaxCallbacks == 3

\* secrets.token_urlsafe(32) of this authorization.
GeneratedState == "S"

\* The query parameters a request to the callback URL may carry; None for a
\* parameter that is missing.
CallbackRequests ==
    {[code |-> c, state |-> st] : c \in {"c1", "c2", None}, st \in {"S", "X", None}}

\* "if 'code' in params and 'state' in params".
HasCodeAndState(req) == req.code # None /\ req.state # None

\* The token file's content: "absent" for no usable file (_load_tokens
\* returns None), else the token dict, with or without expires_at and
\* refresh_token.
StoredChoices ==
    {[kind |-> "absent", has_expires_at |-> FALSE, expires_at |-> 0,
      has_refresh_token |-> FALSE]}
    \cup {[kind |-> "tokens", has_expires_at |-> FALSE, expires_at |-> 0,
           has_refresh_token |-> r] : r \in BOOLEAN}
    \cup {[kind |-> "tokens", has_expires_at |-> TRUE, expires_at |-> x,
           has_refresh_token |-> r] : x \in {9, 10, 11}, r \in BOOLEAN}
NowChoices == {10}

\* The expiry test with a strict comparison.
ExpiredStrictly(tokens, t) == tokens.has_expires_at /\ t > tokens.expires_at

\* "'expires_at' in tokens and time.time() >= tokens['expires_at']".
Expired(tokens, t) == tokens.has_expires_at /\ t >= tokens.expires_at

\* server.shutdown() returning at once, whatever the server thread is doing.
ShutdownReturnsAtOnce == FALSE

\* server.shutdown() blocks until serve_forever has left its loop, which the
\* single-threaded HTTPServer does only between requests.
ShutdownWaitsForHandler == TRUE

\* authorize_and_exchange before it is called.
AuthorizeIdle ==
    /\ a_pc = "idle"
    /\ auth_code = None
    /\ received_state = None
    /\ h_pc = "down"
    /\ h_request = [code |-> None, state |-> None]
    /\ callbacks = 0
    /\ last_callback = [code |-> None, state |-> None]
    /\ exchanged_code = None
    /\ a_raised = "none"

\* authorize_and_exchange up to the start of its polling loop: the state is
\* generated, the browser opened, both nonlocals None, the server started.
AuthorizeStarted ==
    /\ a_pc = "poll"
    /\ auth_code = None
    /\ received_state = None
    /\ h_pc = "serving"
    /\ h_request = [code |-> None, state |-> None]
    /\ callbacks = 0
    /\ last_callback = [code |-> None, state |-> None]
    /\ exchanged_code = None
    /\ a_raised = "none"

\* ensure_access_token before it is called.
EnsureIdle ==
    /\ t_pc = "idle"
    /\ stored = [kind |-> "absent", has_expires_at |-> FALSE, expires_at |-> 0,
                 has_refresh_token |-> FALSE]
    /\ now = 0
    /\ t_result = None
    /\ t_raised = "none"

\* One call of authorize_and_exchange.
InitAuthorize ==
    /\ o_called = "authorize_and_exchange"
    /\ EnsureIdle
    /\ net_posts = 0
    /\ saved = None
    /\ AuthorizeStarted

\* One call of ensure_access_token.
InitEnsure ==
    /\ o_called = "ensure_access_token"
    /\ t_pc = "load"
    /\ stored \in StoredChoices
    /\ now \in NowChoices
    /\ t_result = None
    /\ t_raised = "none"
    /\ net_posts = 0
    /\ saved = None
    /\ AuthorizeIdle

\* Nothing of sc_oauth.py is running.
IdleOauth ==
    /\ o_called = "none"
    /\ EnsureIdle
    /\ net_posts = 0
    /\ saved = None
    /\ AuthorizeIdle

ensureVars == <<t_pc, stored, now, t_result, t_raised>>

\* do_GET, first half: the request is parsed; with both parameters auth_code
\* is written, otherwise the 400 page is sent and nothing is written.
HandlerWritesCode ==
    /\ UNCHANGED notOauth
    /\ h_pc = "serving"
    /\ callbacks < MaxCallbacks
    /\ callbacks' = callbacks + 1
    /\ \E req \in CallbackRequests :
          IF HasCodeAndState(req)
          THEN /\ auth_code' = req.code
               /\ h_request' = req
               /\ last_callback' = req
               /\ h_pc' = "in_do_GET"
          ELSE UNCHANGED <<auth_code, h_request, last_callback, h_pc>>
    /\ UNCHANGED <<o_called, ensureVars, net_posts, saved, a_pc, received_state,
                   exchanged_code, a_raised>>

\* do_GET, second half: received_state is written and the page is sent.
HandlerWritesState ==
    /\ UNCHANGED notOauth
    /\ h_pc = "in_do_GET"
    /\ received_state' = h_request.state
    /\ h_pc' = IF a_pc \in {"poll", "shutdown"} THEN "serving" ELSE "down"
    /\ UNCHANGED <<o_called, ensureVars, net_posts, saved, a_pc, auth_code,
                   h_request, callbacks, last_callback, exchanged_code, a_raised>>

\* The polling loop ends: auth_code is seen not to be None, or the 300 s are
\* over.
PollEnds ==
    /\ UNCHANGED notOauth
    /\ a_pc = "poll"
    /\ \E timed_out \in BOOLEAN : auth_code # None \/ timed_out
    /\ a_pc' = "shutdown"
    /\ UNCHANGED <<o_called, ensureVars, net_posts, saved, auth_code,
                   received_state, h_pc, h_request, callbacks, last_callback,
                   exchanged_code, a_raised>>

\* "server.shutdown(); server.server_close()".
ServerShutdown ==
    /\ UNCHANGED notOauth
    /\ a_pc = "shutdown"
    /\ ShutdownWaitsForHandler => h_pc = "serving"
    /\ h_pc' = IF h_pc = "serving" THEN "down" ELSE h_pc
    /\ a_pc' = "check"
    /\ UNCHANGED <<o_called, ensureVars, net_posts, saved, auth_code,
                   received_state, h_request, callbacks, last_callback,
                   exchanged_code, a_raised>>

\* "if auth_code is None: raise", "if received_state != state: raise".
CheckCallback ==
    /\ UNCHANGED notOauth
    /\ a_pc = "check"
    /\ IF auth_code = None
       THEN a_pc' = "raised" /\ a_raised' = "timeout"
       ELSE IF received_state # GeneratedState
       THEN a_pc' = "raised" /\ a_raised' = "state_mismatch"
       ELSE a_pc' = "exchange" /\ UNCHANGED a_raised
    /\ UNCHANGED <<o_called, ensureVars, net_posts, saved, auth_code,
                   received_state, h_pc, h_request, callbacks, last_callback,
                   exchanged_code>>

\* The POST of the code to TOKEN_URL: the tokens are saved and returned, or a
\* RequestException becomes a RuntimeError.
ExchangeCode ==
    /\ UNCHANGED notOauth
    /\ a_pc = "exchange"
    /\ net_posts' = net_posts + 1
    /\ exchanged_code' = auth_code
    /\ \E ok \in BOOLEAN :
          IF ok
          THEN /\ saved' = "authorized_token"
               /\ a_pc' = "returned"
               /\ UNCHANGED a_raised
          ELSE /\ a_raised' = "exchange_failed"
               /\ a_pc' = "raised"
               /\ UNCHANGED saved
    /\ UNCHANGED <<o_called, ensureVars, auth_code, received_state, h_pc,
                   h_request, callbacks, last_callback>>

NextAuthorize ==
    \/ HandlerWritesCode
    \/ HandlerWritesState
    \/ PollEnds
    \/ ServerShutdown
    \/ CheckCallback
    \/ ExchangeCode

authorizeVars == <<a_pc, auth_code, received_state, h_pc, h_request, callbacks,
                   last_callback, exchanged_code, a_raised>>

\* ensure_access_token: _load_tokens, then the three-way branch on what it
\* returned.
EnsureBranch ==
    /\ UNCHANGED notOauth
    /\ t_pc = "load"
    /\ IF stored.kind = "absent"
       THEN /\ t_pc' = "authorize"
            /\ a_pc' = "poll"
            /\ h_pc' = "serving"
            /\ UNCHANGED t_raised
       ELSE IF Expired(stored, now)
       THEN IF ~stored.has_refresh_token
            THEN /\ t_pc' = "raised"
                 /\ t_raised' = "RuntimeError"
                 /\ UNCHANGED <<a_pc, h_pc>>
            ELSE /\ t_pc' = "refresh"
                 /\ UNCHANGED <<t_raised, a_pc, h_pc>>
       ELSE /\ t_pc' = "return_stored"
            /\ UNCHANGED <<t_raised, a_pc, h_pc>>
    /\ UNCHANGED <<o_called, stored, now, net_posts, saved, t_result, auth_code,
                   received_state, h_request, callbacks, last_callback,
                   exchanged_code, a_raised>>

\* refresh_access_token: the POST; the new tokens are saved and their access
\* token returned, or a RequestException becomes a RuntimeError.
RefreshToken ==
    /\ UNCHANGED notOauth
    /\ t_pc = "refresh"
    /\ net_posts' = net_posts + 1
    /\ \E ok \in BOOLEAN :
          IF ok
          THEN /\ saved' = "refreshed_token"
               /\ t_result' = "refreshed_token"
               /\ t_pc' = "returned"
               /\ UNCHANGED t_raised
          ELSE /\ t_raised' = "RuntimeError"
               /\ t_pc' = "raised"
               /\ UNCHANGED <<saved, t_result>>
    /\ UNCHANGED <<o_called, stored, now, authorizeVars>>

\* authorize_and_exchange has ended: its tokens' access token is returned, or
\* its RuntimeError goes on to the caller.
EnsureAfterAuthorize ==
    /\ UNCHANGED notOauth
    /\ t_pc = "authorize"
    /\ a_pc \in {"returned", "raised"}
    /\ h_pc = "down"
    /\ IF a_pc = "returned"
       THEN /\ t_result' = saved
            /\ t_pc' = "returned"
            /\ UNCHANGED t_raised
       ELSE /\ t_raised' = "RuntimeError"
            /\ t_pc' = "raised"
            /\ UNCHANGED t_result
    /\ UNCHANGED <<o_called, stored, now, net_posts, saved, authorizeVars>>

\* "return tokens['access_token']" with the tokens as loaded.
ReturnStored ==
    /\ UNCHANGED notOauth
    /\ t_pc = "return_stored"
    /\ t_result' = "stored_token"
    /\ t_pc' = "returned"
    /\ UNCHANGED <<o_called, stored, now, net_posts, saved, t_raised, authorizeVars>>

NextEnsure ==
    \/ EnsureBranch
    \/ RefreshToken
    \/ ReturnStored
    \/ EnsureAfterAuthorize
    \/ HandlerWritesCode
    \/ HandlerWritesState
    \/ PollEnds
    \/ ServerShutdown
    \/ CheckCallback
    \/ ExchangeCode

(***************************************************************************)
(* The specifications: one call of each function.                          *)
(***************************************************************************)
InitDetectCall ==
    InitDetect /\ IdleSplit /\ IdleEstimate /\ IdleConvert /\ IdleUpload /\ IdleOauth
InitSplitCall ==
    IdleDetect /\ InitSplit /\ IdleEstimate /\ IdleConvert /\ IdleUpload /\ IdleOauth
InitEstimateCall ==
    IdleDetect /\ IdleSplit /\ InitEstimate /\ IdleConvert /\ IdleUpload /\ IdleOauth
InitConvertCall ==
    IdleDetect /\ IdleSplit /\ IdleEstimate /\ InitConvert /\ IdleUpload /\ IdleOauth
InitUploadTrackCall ==
    IdleDetect /\ IdleSplit /\ IdleEstimate /\ IdleConvert /\ InitUploadTrack /\ IdleOauth
InitUploadManyCall ==
    IdleDetect /\ IdleSplit /\ IdleEstimate /\ IdleConvert /\ InitUploadMany /\ IdleOauth
\* One call of detect_song_spans or of one of its two merge passes.
InitPassesCall ==
    /\ InitDetect \/ InitMergeAdjacentCall \/ InitMergeTargetCall
    /\ IdleSplit
    /\ IdleEstimate
    /\ IdleConvert
    /\ IdleUpload
    /\ IdleOauth
InitAuthorizeCall ==
    IdleDetect /\ IdleSplit /\ IdleEstimate /\ IdleConvert /\ IdleUpload
        /\ InitAuthorize
InitEnsureCall ==
    IdleDetect /\ IdleSplit /\ IdleEstimate /\ IdleConvert /\ IdleUpload
        /\ InitEnsure

SpecDetect == InitDetectCall /\ [][NextDetect]_vars
SpecPasses == InitPassesCall /\ [][NextDetect]_vars
SpecSplit == InitSplitCall /\ [][NextSplit]_vars
SpecEstimate == InitEstimateCall /\ [][NextEstimate]_vars
SpecConvert == InitConvertCall /\ [][NextConvert]_vars
SpecUploadTrack == InitUploadTrackCall /\ [][NextUploadTrack]_vars
SpecUploadMany == InitUploadManyCall /\ [][NextUploadMany]_vars
SpecAuthorize == InitAuthorizeCall /\ [][NextAuthorize]_vars
SpecEnsure == InitEnsureCall /\ [][NextEnsure]_vars
\* upload_track keeps running: every requests.post ends (timeout=300) and so
\* does every time.sleep.
LiveUploadTrack == SpecUploadTrack /\ WF_vars(NextUploadTrack)

(***************************************************************************)
(* Claims about detect_song_spans.                                         *)
(***************************************************************************)
SpanLen(p) == p[2] - p[1]

\* Some two neighbours of the padded probe result overlap.
PaddingOverlaps ==
    \E i \in 1..(Len(nonsilent_ranges) - 1) :
        nonsilent_ranges[i + 1][1] < nonsilent_ranges[i][2]

\* C1: the list detect_song_spans returns is strictly ascending by start and
\* no two of its spans overlap: each span ends at or before the next starts.
C1_OutputAscendingDisjoint ==
    d_pc = "done" =>
        \A i \in 1..(Len(song_spans) - 1) :
            /\ song_spans[i][1] < song_spans[i + 1][1]
            /\ song_spans[i][2] <= song_spans[i + 1][1]

\* C1's case: padding made neighbours overlap and two spans are returned.
C1_Witness ==
    /\ d_pc = "done"
    /\ Len(song_spans) >= 2
    /\ PaddingOverlaps

\* C2: every span detect_song_spans returns is at least 45000 ms long.
C2_NoSpanBelowFloor ==
    d_pc = "done" =>
        \A i \in DOMAIN song_spans : SpanLen(song_spans[i]) >= 45000

\* C2's case: the filter dropped a span of the target-length pass and kept
\* another.
C2_Witness ==
    /\ d_pc = "done"
    /\ Len(song_spans) >= 1
    /\ Len(song_spans) < Len(target_spans)

C4_MergedSpansWithinMax ==
    /\ (d_pc = "target" /\ parts >= 2) => SpanLen(current) <= target_song_max_ms
    /\ \A i \in DOMAIN result :
          result_parts[i] >= 2 => SpanLen(result[i]) <= target_song_max_ms
    /\ \A i \in DOMAIN target_spans :
          result_parts[i] >= 2 => SpanLen(target_spans[i]) <= target_song_max_ms

\* C4's case: the pass closed an accumulator that was still shorter than the
\* minimum (the next range would have exceeded the maximum) and also built a
\* span from two ranges.
C4_Witness ==
    /\ d_pc = "done"
    /\ \E i \in 1..(Len(target_spans) - 1) :
          /\ SpanLen(target_spans[i]) < target_song_min_ms
          /\ result_parts[i] >= 2
          /\ target_spans[i + 1][2] - target_spans[i][1] > target_song_max_ms

(***************************************************************************)
(* Claims about split_tracks.                                              *)
(***************************************************************************)
\* What the except clause of split_tracks records for a failed encode step.
EncodeFailures == {"wav_export", "CalledProcessError", "FileNotFoundError"}

\* The spans, by 1-based position, that the except clause handled.
FailedPositions == {p \in DOMAIN outcomes : outcomes[p] \in EncodeFailures}

RECURSIVE PathsOfSuccesses(_)
\* The file names of the spans among the first n that did not fail, in span
\* order, each named by its own position.
PathsOfSuccesses(n) ==
    IF n = 0 THEN <<>>
    ELSE IF n \in FailedPositions
         THEN PathsOfSuccesses(n - 1)
         ELSE Append(PathsOfSuccesses(n - 1), Format02d(start_index + n - 1))

\* C5: split_tracks on N spans of which k fail in the encode step returns
\* exactly N - k paths, those of the other spans in span order; every span is
\* processed, and no failure of a span makes split_tracks raise.
C5_ReturnsTheSuccessesInOrder ==
    /\ s_pc = "returned" =>
          /\ Len(outcomes) = n_spans
          /\ Len(output_files) = n_spans - Cardinality(FailedPositions)
          /\ output_files = PathsOfSuccesses(n_spans)
    /\ s_pc = "raised" => outcomes = <<>>

\* C5's case: three spans, the middle one fails to encode, the others succeed.
C5_Witness ==
    /\ s_pc = "returned"
    /\ n_spans = 3
    /\ outcomes[1] = "ok"
    /\ outcomes[2] = "CalledProcessError"
    /\ outcomes[3] = "ok"
    /\ Len(output_files) = 2

\* C6: the number in the file name and in the tags of the span at 0-based
\* position k is start_index + k, whatever happened to the spans before it.
C6_TrackNumberIsPosition ==
    /\ s_pc \in {"wav", "ffmpeg", "finally", "tags", "append", "except"} =>
          /\ track_i = start_index + pos
          /\ DigitsValue(track_num) = start_index + pos
    /\ \A f \in DOMAIN tags :
          /\ DigitsValue(tags[f].TRACKNUMBER) = DigitsValue(f)
          /\ DigitsValue(tags[f].TITLE[2]) = DigitsValue(f)
    /\ s_pc = "returned" =>
          \A p \in DOMAIN outcomes :
              p \notin FailedPositions =>
                  \E j \in DOMAIN output_files :
                      /\ DigitsValue(output_files[j]) = start_index + p - 1
                      /\ j = p - Cardinality({q \in FailedPositions : q < p})

\* C6's case: the first span failed and the second was exported and tagged;
\* its file is the first of the list and is numbered start_index + 1.
C6_Witness ==
    /\ s_pc = "returned"
    /\ n_spans >= 2
    /\ 1 \in FailedPositions
    /\ outcomes[2] = "ok"
    /\ output_files[1] = Format02d(start_index + 1)
    /\ output_files[1] \in DOMAIN tags

\* The spans, by 1-based position, whose tag write failed.
TagFailedPositions == {p \in DOMAIN outcomes : outcomes[p] = "tag_failed"}

OutputSet == {output_files[j] : j \in DOMAIN output_files}

C8_EncoderUnavailableIsFatal ==
    (\E p \in DOMAIN outcomes : outcomes[p] = "FileNotFoundError") =>
        s_pc # "returned"

(***************************************************************************)
(* Claims about estimate_silence_threshold.                                *)
(***************************************************************************)
\* C9 as claimed: the threshold returned is never above 0 dBFS.
C9_ThresholdNotPositive ==
    e_pc = "returned" => threshold_db <= 0

\* No segment of the analysed sample is informative (the sample may be empty).
NoInformativeSegment == \A k \in DOMAIN sample : sample[k] = NegInf

\* C10: when no segment of the sample is informative, the function returns
\* -40.0 dB and does not raise.
C10_FallbackWithoutInformativeSegment ==
    (e_pc \in {"returned", "raised"} /\ NoInformativeSegment) =>
        (e_pc = "returned" /\ threshold_db = -400)

\* C10's case: a sample of two or more segments, all digital silence.
C10_Witness ==
    /\ e_pc = "returned"
    /\ Len(sample) >= 2
    /\ NoInformativeSegment
    /\ threshold_db = -400

\* The input list of the call: the probe's intervals for detect_song_spans,
\* the ranges argument for a direct call of one of the merge passes.
CallInput ==
    CASE called = "detect_song_spans" -> probe
      [] called = "_merge_adjacent_ranges" -> nonsilent_ranges
      [] called = "_merge_to_target_lengths" -> merged_ranges
      [] OTHER -> <<>>

\* The list the call returns once it is "done".
CallOutput ==
    CASE called = "detect_song_spans" -> song_spans
      [] called = "_merge_adjacent_ranges" -> merged_ranges
      [] called = "_merge_to_target_lengths" -> target_spans
      [] OTHER -> <<>>

\* C11: empty in, empty out at every stage. When the probe returns no interval
\* detect_song_spans returns the empty list and does not raise, and each merge
\* pass called on the empty list returns the empty list and does not raise: a
\* call on an empty input is never inside a loop and never ends in an
\* exception, and where it has ended its result is empty.
C11_EmptyInEmptyOut ==
    CallInput = <<>> =>
        /\ d_pc \in {"idle", "probe", "adjacent_enter", "target_enter", "done"}
        /\ d_pc = "done" => CallOutput = <<>>

C11_Witness ==
    /\ called = "_merge_to_target_lengths"
    /\ merged_ranges = <<>>
    /\ d_pc = "done"
    /\ target_spans = <<>>

\* The Span invariant for a range p of a recording of the given duration.
IsSpan(p, duration) == 0 <= p[1] /\ p[1] < p[2] /\ p[2] <= duration

AllSpans(ranges, duration) == \A i \in DOMAIN ranges : IsSpan(ranges[i], duration)

\* C12: every span the detector produces satisfies 0 <= start < end <=
\* duration. Padding maps the probe interval (s, e) to (max(0, s -
\* keep_silence_ms), min(duration, e + keep_silence_ms)), and every list the
\* merge passes and the floor filter build, the accumulator included, holds
\* only such spans.
C12_SpansWithinRecording ==
    called = "detect_song_spans" =>
        /\ d_pc # "probe" =>
              /\ Len(nonsilent_ranges) = Len(probe)
              /\ \A i \in DOMAIN probe :
                    nonsilent_ranges[i] =
                        <<Max(0, probe[i][1] - keep_silence_ms),
                          Min(total_duration_ms, probe[i][2] + keep_silence_ms)>>
        /\ AllSpans(nonsilent_ranges, total_duration_ms)
        /\ AllSpans(merged, total_duration_ms)
        /\ AllSpans(merged_ranges, total_duration_ms)
        /\ d_pc = "target" => IsSpan(current, total_duration_ms)
        /\ AllSpans(result, total_duration_ms)
        /\ AllSpans(target_spans, total_duration_ms)
        /\ AllSpans(song_spans, total_duration_ms)

\* Padding was clamped at both ends of the recording and the spans came out.
C12_Witness ==
    /\ called = "detect_song_spans"
    /\ d_pc = "done"
    /\ keep_silence_ms > 0
    /\ Len(probe) >= 2
    /\ probe[1][1] - keep_silence_ms < 0
    /\ probe[Len(probe)][2] + keep_silence_ms > total_duration_ms
    /\ Len(song_spans) >= 2
    /\ song_spans[1][1] = 0
    /\ song_spans[Len(song_spans)][2] = total_duration_ms

\* Whether a tag bag has the tag k.
HasTag(t, k) == k \in DOMAIN t

\* C13: for every combination of band, venue and show date being given (a
\* non-empty string) or absent, the tags saved for a track are: ARTIST and
\* ALBUMARTIST both equal to the band iff a band is given, else both absent;
\* ALBUM the given ones of venue and date, venue first, joined by " - ", and
\* absent iff neither is given; DATE the show date iff it is given. With
\* band Foo, venue Bar and date 2024-05-01: ARTIST = Foo, ALBUM = "Bar -
\* 2024-05-01", DATE = 2024-05-01.
C13_OptionalTags ==
    \A f \in DOMAIN tags :
        LET t == tags[f]
            hasBand == band \notin {None, ""}
            hasVenue == venue \notin {None, ""}
            hasDate == show_date_iso \notin {None, ""}
        IN /\ HasTag(t, "ARTIST") <=> hasBand
           /\ HasTag(t, "ALBUMARTIST") <=> hasBand
           /\ hasBand => t.ARTIST = band /\ t.ALBUMARTIST = band
           /\ HasTag(t, "ALBUM") <=> (hasVenue \/ hasDate)
           /\ (hasVenue /\ hasDate) => t.ALBUM = <<venue, " - ", show_date_iso>>
           /\ (hasVenue /\ ~hasDate) => t.ALBUM = <<venue>>
           /\ (~hasVenue /\ hasDate) => t.ALBUM = <<show_date_iso>>
           /\ HasTag(t, "DATE") <=> hasDate
           /\ hasDate => t.DATE = show_date_iso
           /\ (band = "Foo" /\ venue = "Bar" /\ show_date_iso = "2024-05-01") =>
                 /\ t.ARTIST = "Foo"
                 /\ t.ALBUM = <<"Bar", " - ", "2024-05-01">>
                 /\ t.DATE = "2024-05-01"

\* The spec's example: a track tagged with band Foo, venue Bar, date 2024-05-01.
C13_Witness ==
    /\ s_pc = "returned"
    /\ band = "Foo"
    /\ venue = "Bar"
    /\ show_date_iso = "2024-05-01"
    /\ \E f \in DOMAIN tags :
          /\ tags[f].ARTIST = "Foo"
          /\ tags[f].ALBUM = <<"Bar", " - ", "2024-05-01">>

\* C14 as stated: the TRACKNUMBER tag of every exported track is the track's
\* number zero-padded to at least two digits, the very NN of the title
\* "Track NN" and of the file name track_NN.flac.
C14_TrackNumberTagIsPaddedNN ==
    \A f \in DOMAIN tags :
        /\ tags[f].TRACKNUMBER = f
        /\ tags[f].TITLE[2] = f

\* C14, amended: the title and the file name carry the same NN, the track's
\* number zero-padded to two digits; the TRACKNUMBER tag is that number in
\* plain decimal, without padding (track 3 is "3", NN is "03"), so it reads as
\* the same number as NN and is NN itself only from track 10 on.
C14_TrackNumberTagUnpadded ==
    \A f \in DOMAIN tags :
        LET t == tags[f] IN
        /\ t.TITLE[2] = f
        /\ Len(f) >= 2
        /\ Len(f) > 2 => f[1] # 0
        /\ Len(t.TRACKNUMBER) >= 1
        /\ Len(t.TRACKNUMBER) > 1 => t.TRACKNUMBER[1] # 0
        /\ DigitsValue(t.TRACKNUMBER) = DigitsValue(f)
        /\ t.TRACKNUMBER = f <=> DigitsValue(f) >= 10

\* Track 3 was exported as track_03.flac, titled "Track 03", TRACKNUMBER "3".
C14_Witness ==
    /\ s_pc = "returned"
    /\ <<0, 3>> \in DOMAIN tags
    /\ tags[<<0, 3>>].TRACKNUMBER = <<3>>
    /\ tags[<<0, 3>>].TITLE = <<"Track", <<0, 3>>>>
    /\ \E k \in DOMAIN output_files : output_files[k] = <<0, 3>>

\* C15: once _export_segment_to_flac has finished for a span, by returning or
\* by raising (WAV export failed, ffmpeg failed, ffmpeg missing), that span's
\* .tmp.wav file does not exist; so outside the export of a span no temporary
\* file exists at all, in particular after split_tracks has returned, and
\* during an export the only one is the current span's.
C15_NoTempFileLeft ==
    /\ s_pc \in {"tags", "append", "except", "loop", "returned"} => temp_files = {}
    /\ temp_files \subseteq {track_num}

\* split_tracks has returned after an export that ffmpeg failed (its WAV had
\* been written) and one that succeeded; no temporary file is left.
C15_Witness ==
    /\ s_pc = "returned"
    /\ \E k \in DOMAIN outcomes :
          outcomes[k] \in {"CalledProcessError", "FileNotFoundError"}
    /\ \E k \in DOMAIN outcomes : outcomes[k] = "wav_export"
    /\ \E k \in DOMAIN outcomes : outcomes[k] = "ok"
    /\ temp_files = {}

(***************************************************************************)
(* Claims about convert_to_flac.                                           *)
(***************************************************************************)
\* Whether the argument list cmd has the argument a.
HasArg(cmd, a) == \E k \in DOMAIN cmd : cmd[k] = a

\* C16: when ffmpeg is found on PATH, convert_to_flac starts the ffmpeg
\* subprocess exactly once, with an argument list that holds "-c:a" followed
\* by "flac", "-y", the source path and the destination path; when ffmpeg is
\* not on PATH it raises RuntimeError and starts no subprocess.
C16_InvokesFfmpegOnce ==
    /\ Len(subprocess_calls) <= 1
    /\ \A k \in DOMAIN subprocess_calls :
          LET cmd == subprocess_calls[k] IN
          /\ which_ffmpeg # None
          /\ cmd[1] = "ffmpeg"
          /\ HasArg(cmd, "-y")
          /\ \E j \in 1..(Len(cmd) - 1) : cmd[j] = "-c:a" /\ cmd[j + 1] = "flac"
          /\ \E j \in 1..(Len(cmd) - 1) : cmd[j] = "-i" /\ cmd[j + 1] = src
          /\ cmd[Len(cmd)] = dst
    /\ (which_ffmpeg # None /\ c_pc \in {"returned", "raised"}) =>
          Len(subprocess_calls) = 1
    /\ (which_ffmpeg = None /\ c_pc \notin {"idle", "which"}) =>
          /\ c_pc = "raised"
          /\ c_raised = "RuntimeError"

\* convert_to_flac has returned after its one ffmpeg call, for a source that
\* is itself named "flac".
C16_Witness ==
    /\ c_pc = "returned"
    /\ which_ffmpeg = "/usr/local/bin/ffmpeg"
    /\ src = "flac"
    /\ dst = "a/b/out.flac"
    /\ subprocess_calls = <<<<"ffmpeg", "-y", "-i", "flac", "-c:a", "flac",
                              "a/b/out.flac">>>>

(***************************************************************************)
(* Claims about the two merge passes on their own.                         *)
(***************************************************************************)
\* The indices among 1..n at which a run of ranges chained by gaps <= gap
\* starts: the first, and each one further than gap from its predecessor's end.
RunStarts(ranges, gap, n) ==
    {i \in 1..n : i = 1 \/ ranges[i][1] - ranges[i - 1][2] > gap}

\* The first n ranges with each maximal run collapsed to (first start, last end).
CollapsedRuns(ranges, gap, n) ==
    LET starts == RunStarts(ranges, gap, n)
        kth(k) == CHOOSE a \in starts : Cardinality({x \in starts : x <= a}) = k
        lastOf(a) == IF \E x \in starts : x > a
                     THEN (CHOOSE x \in starts :
                              x > a /\ \A y \in starts : y > a => x <= y) - 1
                     ELSE n
    IN [k \in 1..Cardinality(starts) |->
           <<ranges[kth(k)][1], ranges[lastOf(kth(k))][2]>>]

\* The adjacency pass runs or has run in this call.
AdjacencyPassCalled == called \in {"detect_song_spans", "_merge_adjacent_ranges"}

\* The adjacency pass has returned its list.
AdjacencyPassReturned ==
    \/ called = "_merge_adjacent_ranges" /\ d_pc = "done"
    \/ /\ called = "detect_song_spans"
       /\ d_pc \in {"target_enter", "target", "filter", "done"}
       /\ nonsilent_ranges # <<>>

TargetPassReturned ==
    \/ called = "_merge_to_target_lengths" /\ d_pc = "done"
    \/ /\ called = "detect_song_spans"
       /\ d_pc \in {"filter", "done"}
       /\ nonsilent_ranges # <<>>

\* The target-length pass is at the head of its loop with a next span to take.
TargetPassAtNext == d_pc = "target" /\ tgt_i <= Len(merged_ranges)

\* In the returned list every span shorter than the minimum, the last one
\* excepted, is followed by a span whose first constituent would have brought
\* the combined length over the maximum.
ShortSpansWereBlocked ==
    TargetPassReturned =>
        /\ \A k \in 1..(Len(target_spans) - 1) :
              SpanLen(target_spans[k]) < target_song_min_ms =>
                 \E i \in DOMAIN merged_ranges :
                    /\ merged_ranges[i][1] = target_spans[k + 1][1]
                    /\ merged_ranges[i][2] - target_spans[k][1] > target_song_max_ms
        /\ ( /\ merged_ranges = <<<<0, 90000>>, <<90000, 200000>>>>
             /\ target_song_min_ms = 120000
             /\ target_song_max_ms = 600000 ) =>
              target_spans = <<<<0, 200000>>>>

\* A short accumulator whose combined length with the next span is within the
\* maximum takes the next span in: its end moves to that span's end and
\* nothing is closed.
ShortAccumulatorMerges ==
    ( /\ TargetPassAtNext
      /\ SpanLen(current) < target_song_min_ms
      /\ merged_ranges[tgt_i][2] - current[1] <= target_song_max_ms ) =>
        /\ current' = <<current[1], merged_ranges[tgt_i][2]>>
        /\ result' = result
        /\ tgt_i' = tgt_i + 1

\* C18: target-length pass, short accumulator. Whenever the accumulator is
\* shorter than target_song_min_ms and its combined length with the next span
\* is <= target_song_max_ms, the next span is merged in; hence every returned
\* span shorter than the minimum, other than the last, is immediately
\* followed by a span whose first constituent would have made the combined
\* length exceed the maximum, and [(0,90000),(90000,200000)] with min 120000
\* and max 600000 yields [(0,200000)].
C18_ShortAccumulatorMergesNext ==
    /\ []ShortSpansWereBlocked
    /\ [][ShortAccumulatorMerges]_vars

\* The pass returned a span that is short although it was built by a merge,
\* closed because the span after it would have exceeded the maximum.
C18_Witness ==
    /\ called = "_merge_to_target_lengths"
    /\ d_pc = "done"
    /\ Len(target_spans) = 2
    /\ Len(merged_ranges) = 3
    /\ target_spans[1] = <<merged_ranges[1][1], merged_ranges[2][2]>>
    /\ SpanLen(target_spans[1]) < target_song_min_ms
    /\ merged_ranges[3][2] - target_spans[1][1] > target_song_max_ms

\* Whether the span p, built by the target-length pass, was still shorter than
\* the minimum at each of its constituents before the last: every input span
\* inside p that ends before p does ends less than the minimum from p's start.
ShortBeforeLastPart(p) ==
    \A i \in DOMAIN merged_ranges :
        (p[1] <= merged_ranges[i][1] /\ merged_ranges[i][2] < p[2]) =>
            merged_ranges[i][2] - p[1] < target_song_min_ms

\* Every span the target-length pass has closed or returned, and its
\* accumulator, was short before its last constituent was added.
NoSufficientSpanExtended ==
    /\ d_pc = "target" =>
          /\ ShortBeforeLastPart(current)
          /\ \A k \in DOMAIN result : ShortBeforeLastPart(result[k])
    /\ TargetPassReturned =>
          \A k \in DOMAIN target_spans : ShortBeforeLastPart(target_spans[k])

\* An accumulator that has reached the minimum is closed as it is at the next
\* span, which starts the new accumulator, whatever that span's length.
SufficientAccumulatorCloses ==
    (TargetPassAtNext /\ SpanLen(current) >= target_song_min_ms) =>
        /\ result' = Append(result, current)
        /\ current' = merged_ranges[tgt_i]
        /\ tgt_i' = tgt_i + 1

\* C19: greedy cut. In the target-length pass an accumulator whose length is
\* already >= target_song_min_ms is never extended: it is closed at the next
\* input span regardless of that span's length, and for every output span
\* built from k >= 2 consecutive input spans the length from its start to the
\* end of its (k-1)-th constituent is < target_song_min_ms.
C19_GreedyCut ==
    /\ []NoSufficientSpanExtended
    /\ [][SufficientAccumulatorCloses]_vars

\* The pass merged two spans into one that reached the minimum and then cut:
\* the third span was kept apart although all three fit under the maximum.
C19_Witness ==
    /\ called = "_merge_to_target_lengths"
    /\ d_pc = "done"
    /\ Len(merged_ranges) = 3
    /\ target_spans = << <<merged_ranges[1][1], merged_ranges[2][2]>>,
                         merged_ranges[3] >>
    /\ SpanLen(merged_ranges[1]) < target_song_min_ms
    /\ SpanLen(target_spans[1]) >= target_song_min_ms
    /\ merged_ranges[3][2] - merged_ranges[1][1] <= target_song_max_ms

\* Whether the span outer contains the span inner.
Contains(outer, inner) == outer[1] <= inner[1] /\ inner[2] <= outer[2]

\* C20: the target-length pass drops nothing. On a non-empty input the list
\* returned is not empty and ends with the final accumulator, whatever its
\* length; every input span is contained in exactly one output span; every
\* output span runs from the start of an input span to the end of the same
\* or a later one, the next output span starting at the input span right
\* after it; the first output start is the first input start and the last
\* output end is the last input end.
C20_TargetPassDropsNothing ==
    (TargetPassReturned /\ merged_ranges # <<>>) =>
        LET in == merged_ranges
            out == target_spans
        IN /\ out # <<>>
           /\ out[Len(out)] = current
           /\ \A i \in DOMAIN in :
                 Cardinality({k \in DOMAIN out : Contains(out[k], in[i])}) = 1
           /\ \A k \in DOMAIN out :
                 \E a \in DOMAIN in : \E b \in a..Len(in) :
                    /\ out[k] = <<in[a][1], in[b][2]>>
                    /\ k = 1 => a = 1
                    /\ k = Len(out) => b = Len(in)
                    /\ k < Len(out) => (b < Len(in) /\ out[k + 1][1] = in[b + 1][1])
           /\ out[1][1] = in[1][1]
           /\ out[Len(out)][2] = in[Len(in)][2]

\* The pass returned a first span that reached the minimum and, last, an
\* accumulator of two merged spans that never did.
C20_Witness ==
    /\ called = "_merge_to_target_lengths"
    /\ d_pc = "done"
    /\ Len(merged_ranges) = 3
    /\ target_spans = << merged_ranges[1],
                         <<merged_ranges[2][1], merged_ranges[3][2]>> >>
    /\ SpanLen(target_spans[1]) >= target_song_min_ms
    /\ SpanLen(target_spans[2]) < target_song_min_ms

(***************************************************************************)
(* Claims about the floor filter and the threshold estimate.               *)
(***************************************************************************)
\* The positions of the target-length pass output whose span reaches the floor.
KeptPositions == {k \in DOMAIN target_spans : SpanLen(target_spans[k]) >= 45000}

\* C21: the floor filter only discards. The list detect_song_spans returns is
\* the subsequence of the target-length pass output made of the spans of
\* length >= 45000 ms, in the same order, each with its start and end
\* unchanged: no neighbour of a dropped span is moved and nothing is merged
\* again. A probe of a single interval yields its padded span if that is at
\* least 45000 ms long and the empty list otherwise.
C21_FloorFilterOnlyDiscards ==
    (called = "detect_song_spans" /\ d_pc = "done" /\ probe # <<>>) =>
        /\ Len(song_spans) = Cardinality(KeptPositions)
        /\ \A k \in KeptPositions :
              song_spans[Cardinality({j \in KeptPositions : j <= k})] = target_spans[k]
        /\ Len(probe) = 1 =>
              song_spans = IF SpanLen(nonsilent_ranges[1]) >= 45000
                           THEN <<nonsilent_ranges[1]>>
                           ELSE <<>>

\* A short span between two kept spans was dropped and both neighbours came
\* out as they were.
C21_Witness ==
    /\ called = "detect_song_spans"
    /\ d_pc = "done"
    /\ Len(target_spans) = 3
    /\ SpanLen(target_spans[2]) < 45000
    /\ song_spans = <<target_spans[1], target_spans[3]>>

\* The leading part of the recording that is analysed: min(analysis_sample_sec
\* * 1000, len(audio)) ms of it, in segments.
LeadingSample == SubSeq(audio, 1, Min(analysis_sample_segs, Len(audio)))

\* The positions of the leading sample whose loudness is not -inf.
InformativePositions == {k \in DOMAIN LeadingSample : LeadingSample[k] # NegInf}

\* Whether v is the value at 0-based index idx of the informative loudness
\* values sorted ascending: at most idx of them are below v and more than idx
\* are at or below it, v being one of them.
IsSortedValueAt(v, idx) ==
    /\ \E k \in InformativePositions : LeadingSample[k] = v
    /\ Cardinality({k \in InformativePositions : LeadingSample[k] < v}) <= idx
    /\ Cardinality({k \in InformativePositions : LeadingSample[k] <= v}) > idx

\* C22: with at least one informative window and bottom_percentile in [0, 1),
\* estimate_silence_threshold returns sorted(informative loudness)[floor(count
\* * bottom_percentile)] + floor_headroom_db, the windows that are -inf left
\* out before counting and the sample being the leading min(analysis_sample_sec
\* * 1000, duration) ms; the index lies in 0..count-1 and the lookup does not
\* fail.
C22_ThresholdIsPercentilePlusHeadroom ==
    LET count == Cardinality(InformativePositions)
        idx == (count * bottom_percentile) \div 100
    IN (count >= 1 /\ bottom_percentile < 100) =>
          /\ idx \in 0..(count - 1)
          /\ e_pc # "raised"
          /\ e_pc = "returned" =>
                IsSortedValueAt(threshold_db - floor_headroom_db, idx)

\* Three informative windows out of four, unsorted and not all equal, the
\* percentile picking the loudest of them.
C22_Witness ==
    /\ e_pc = "returned"
    /\ Len(audio) = 4
    /\ Cardinality(InformativePositions) = 3
    /\ bottom_percentile = 99
    /\ floor_headroom_db = 35
    /\ audio[1] = 0
    /\ audio[4] = -600
    /\ threshold_db = 35

(***************************************************************************)
(* Claims about the SoundCloud upload.                                     *)
(***************************************************************************)
\* The statuses upload_track is said to retry; NetworkError stands for a
\* network error.
RetriedOutcomes == {429, 500, 502, 503, 504, NetworkError}

\* upload_track has ended, by returning or by raising.
UploadTrackEnded == u_pc \in {"returned", "raised"}

\* What holds of upload_track at every moment: never more than 4 POSTs, the
\* delays slept are 1, 2, 4 in that order, one per failed attempt; it returns
\* only on a 201 and with that response's id; a RuntimeError follows a status
\* that is not retried or a retried one on the 4th attempt; the file is not
\* open once the function has ended.
UploadTrackBounded ==
    /\ posts <= 4
    /\ posts <= MAX_RETRIES + 1
    /\ Len(sleeps) <= 3
    /\ sleeps = SubSeq(<<1, 2, 4>>, 1, Len(sleeps))
    /\ u_pc = "post" => posts = Len(sleeps)
    /\ u_pc = "returned" =>
          /\ last_status = 201
          /\ track_id \in TrackIdChoices
          /\ u_raised = "none"
    /\ (UploadTrackEnded /\ posts > 0 /\ last_status # 201) =>
          /\ u_pc = "raised"
          /\ u_raised = "RuntimeError"
          /\ last_status \in RetriedOutcomes => posts = 4
          /\ last_status \notin RetriedOutcomes => Len(sleeps) = posts - 1
    /\ UploadTrackEnded => ~handle_open

\* What every POST leads to, posts being the number of the attempt from 0.
UploadTrackStep ==
    posts' = posts + 1 =>
        /\ last_status' = 201 =>
              (u_pc' = "finally" /\ u_raised' = "none" /\ sleeps' = sleeps)
        /\ (last_status' \in RetriedOutcomes /\ posts \in {0, 1, 2}) =>
              /\ sleeps' = Append(sleeps, <<1, 2, 4>>[posts + 1])
              /\ u_pc' = "post"
              /\ u_raised' = "none"
        /\ (last_status' \in RetriedOutcomes /\ posts = 3) =>
              (u_pc' = "finally" /\ u_raised' = "RuntimeError" /\ sleeps' = sleeps)
        /\ last_status' \notin (RetriedOutcomes \cup {201}) =>
              (u_pc' = "finally" /\ u_raised' = "RuntimeError" /\ sleeps' = sleeps)

\* C23: upload_track always terminates after at most MAX_RETRIES + 1 = 4 POST
\* attempts. It returns the track id at the first 201; a retryable status
\* (429, 500, 502, 503, 504) or a network error on attempt 0, 1, 2 leads to
\* another attempt after 1, 2, 4 seconds; any other status raises
\* RuntimeError at once; a retryable failure on the 4th attempt raises
\* RuntimeError; the file handle is closed on every exit path.
C23_UploadTrackTerminates ==
    /\ []UploadTrackBounded
    /\ [][UploadTrackStep]_vars
    /\ <>UploadTrackEnded

\* Four attempts failed with retried outcomes: three delays slept, then
\* RuntimeError, with the file closed.
C23_Witness ==
    /\ u_called = "upload_track"
    /\ u_pc = "raised"
    /\ u_raised = "RuntimeError"
    /\ posts = 4
    /\ sleeps = <<1, 2, 4>>
    /\ last_status \in {429, 500, 502, 503, 504}
    /\ ~handle_open

\* The members of seq at the positions in S, in their order in seq.
SubseqAt(seq, S) ==
    [k \in 1..Cardinality(S) |->
        seq[CHOOSE a \in S : Cardinality({x \in S : x <= a}) = k]]

\* The paths of the pairs in uploaded, in order.
UploadedPaths == [k \in DOMAIN uploaded |-> uploaded[k][1]]

\* The first n files are split between uploaded and failed, each position in
\* exactly one of them and both in input order; no file that is missing or
\* over the limit is among the uploaded, and every pair carries a track id.
PartitionsFirst(n) ==
    /\ Len(uploaded) + Len(failed) = n
    /\ \E S \in SUBSET (1..n) :
          /\ UploadedPaths = SubseqAt(files, S)
          /\ failed = SubseqAt(files, (1..n) \ S)
          /\ \A j \in S :
                FileExists(files[j]) /\ FileSize(files[j]) <= 500
    /\ \A k \in DOMAIN uploaded : uploaded[k][2] \in TrackIdChoices

\* C24: upload_many never raises for a per-file failure and partitions its
\* input. After it returns every input file appears exactly once, in
\* 'uploaded' with its track id or in 'failed', so len(uploaded) +
\* len(failed) = len(files); both lists keep the input order; a failure or an
\* oversize skip of one file does not keep later files from being uploaded:
\* at the head of each iteration the files before it are so partitioned and
\* the loop goes on to the end of the list.
C24_UploadManyPartitions ==
    u_called = "upload_many" =>
        /\ m_pc # "raised"
        /\ m_pc \in {"loop", "call"} => PartitionsFirst(file_idx - 1)
        /\ m_pc = "returned" =>
              /\ file_idx = Len(files) + 1
              /\ PartitionsFirst(Len(files))

\* An oversize file was skipped, the upload of the next failed, and the file
\* after them was uploaded all the same.
C24_Witness ==
    /\ u_called = "upload_many"
    /\ m_pc = "returned"
    /\ files = <<"big.flac", "a.flac", "b.flac">>
    /\ failed = <<"big.flac", "a.flac">>
    /\ Len(uploaded) = 1
    /\ uploaded[1][1] = "b.flac"

(***************************************************************************)
(* Claims about the SoundCloud authorization.                              *)
(***************************************************************************)
\* Tokens are stored and their expires_at is <= the current time.
StoredExpired ==
    stored.kind = "tokens" /\ stored.has_expires_at /\ stored.expires_at <= now

\* Tokens are stored and are unexpired or carry no expires_at.
StoredUsable ==
    stored.kind = "tokens" /\ (~stored.has_expires_at \/ stored.expires_at > now)

\* ensure_access_token has ended, by returning or by raising.
EnsureEnded == t_pc \in {"returned", "raised"}

\* C25: ensure_access_token never returns a stored access token whose
\* expires_at is <= the current time. With no stored tokens it runs the full
\* authorization flow; with stored tokens that are expired it returns the
\* token of a refresh, or raises RuntimeError without any network request
\* when no refresh_token is stored; only with stored tokens that are
\* unexpired, or carry no expires_at, does it return the stored access token,
\* and then without any network request.
C25_NoExpiredStoredToken ==
    o_called = "ensure_access_token" =>
        /\ t_result = "stored_token" =>
              (StoredUsable /\ net_posts = 0 /\ a_pc = "idle")
        /\ (stored.kind = "absent" /\ t_pc # "load") => a_pc # "idle"
        /\ (stored.kind = "absent" /\ EnsureEnded) =>
              /\ a_pc \in {"returned", "raised"}
              /\ t_pc = "returned" <=> a_pc = "returned"
              /\ t_pc = "returned" => t_result = "authorized_token"
        /\ (StoredExpired /\ stored.has_refresh_token) =>
              /\ a_pc = "idle"
              /\ t_pc = "returned" =>
                    (t_result = "refreshed_token" /\ net_posts = 1)
        /\ (StoredExpired /\ ~stored.has_refresh_token /\ t_pc # "load") =>
              (t_pc = "raised" /\ t_raised = "RuntimeError" /\ net_posts = 0)
        /\ (StoredUsable /\ EnsureEnded) =>
              (t_pc = "returned" /\ t_result = "stored_token" /\ net_posts = 0)

\* Stored tokens expiring at this very moment were refreshed.
C25_Witness ==
    /\ o_called = "ensure_access_token"
    /\ t_pc = "returned"
    /\ stored.kind = "tokens"
    /\ stored.has_expires_at
    /\ stored.expires_at = now
    /\ t_result = "refreshed_token"
    /\ net_posts = 1

\* The main thread of authorize_and_exchange is past server.shutdown().
PastShutdown == a_pc \in {"check", "exchange", "returned", "raised"}

\* C26: in authorize_and_exchange, under every interleaving of the handler
\* thread (which writes auth_code and then received_state) and the polling
\* main thread (which waits on auth_code and then compares received_state),
\* the code is exchanged for tokens only if the state received with it equals
\* the state generated for this authorization, and a callback that carries
\* the correct state is never rejected as a state mismatch: once the main
\* thread is past the shutdown, the code and the state it reads are those of
\* one and the same callback, the last one taken.
C26_StateCheckedWithItsCode ==
    /\ PastShutdown =>
          /\ h_pc = "down"
          /\ auth_code = last_callback.code
          /\ received_state = last_callback.state
    /\ (a_pc \in {"exchange", "returned"} \/ exchanged_code # None) =>
          /\ last_callback.state = GeneratedState
          /\ received_state = GeneratedState
          /\ auth_code = last_callback.code
    /\ exchanged_code # None => exchanged_code = last_callback.code
    /\ a_raised = "state_mismatch" =>
          /\ last_callback.code # None
          /\ last_callback.state # GeneratedState

\* The interleaving in question: the main thread has left its loop on seeing
\* auth_code while the handler, whose request carries the correct state, has
\* not written received_state yet.
C26_Witness ==
    /\ o_called = "authorize_and_exchange"
    /\ a_pc = "shutdown"
    /\ h_pc = "in_do_GET"
    /\ auth_code # None
    /\ received_state = None
    /\ h_request.state = GeneratedState

====
